---- MODULE Spec2Model ----
(***************************************************************************)
(* A model of caption-animator: text normalisation, greedy word wrapping,  *)
(* multi-line measurement, overlay sizing, the animation family (with the  *)
(* word_reveal timing allocator) and the per-file pipeline render_subtitle.*)
(*                                                                         *)
(* A text is a sequence of strings.  Caption text is held one character    *)
(* per element; the fixed parts of a generated override fragment are held  *)
(* as multi-character elements that contain no brace, blank or line break, *)
(* so that every search the code makes ("{", "}", " ", "\n", "\N", "{X}")  *)
(* sees the same matches as on the flat string.                            *)
(*                                                                         *)
(* Python floats are modelled as exact rationals: font.getlength in half   *)
(* pixels, outline_px / shadow_px in quarter pixels, safety_scale in       *)
(* hundredths.  round() is round-half-to-even, math.ceil is CeilDiv.       *)
(***************************************************************************)
EXTENDS Integers, Sequences, FiniteSets, TLC

VARIABLES
    \* ---- render_subtitle (cli/main.py) ----
    pc,          \* position inside render_subtitle: index of the next stage of PIPELINE
    args,        \* parsed command-line arguments
    preset,      \* PresetConfig
    events,      \* subtitle.subs.events: sequence of [start, end, text, style]
    size,        \* OverlaySize returned by compute_size, or None
    position,    \* anchor returned by compute_anchor_position, or None
    info,        \* subtitle.subs.info (script info fields)
    ass_file,    \* content of work.ass, or None
    render_call, \* arguments handed to FFmpegRenderer.render, or None
    error,       \* the exception that ended the run, or None
    loaded,      \* history: the events as SubtitleFile.load returned them
    trace,       \* history: the stages run so far, in order
    pre_anim,    \* history: event texts just before apply_animation
    measured,    \* history: per event, the text compute_size wrapped and measured
    \* ---- direct calls of library functions ----
    call,        \* the function called and its arguments
    ret          \* the results returned so far

vars == <<pc, args, preset, events, size, position, info, ass_file,
          render_call, error, loaded, trace, pre_anim, measured, call, ret>>

pipeline_vars == <<pc, args, preset, events, size, position, info, ass_file,
                   render_call, error, loaded, trace, pre_anim, measured>>

None == "None"

(***************************************************************************)
(* Bounds of the model.                                                    *)
(***************************************************************************)
MaxTextLen == 5     \* longest text handed to wrap_text_to_width directly
MaxEvents == 1      \* most events in a subtitle file
MaxKaraokeLen == 4  \* longest event text handed to word_reveal directly

(***************************************************************************)
(* Arithmetic helpers.                                                     *)
(***************************************************************************)
Max(a, b) == IF a >= b THEN a ELSE b
Min(a, b) == IF a <= b THEN a ELSE b

\* math.ceil(n / d) for d > 0 (\div rounds towards minus infinity)
CeilDiv(n, d) == -((-n) \div d)

\* Python round(n / d) for d > 0: round half to even
RoundDiv(n, d) ==
    LET q == n \div d
        r == n - q * d
    IN  IF 2 * r < d THEN q
        ELSE IF 2 * r > d THEN q + 1
        ELSE IF q % 2 = 0 THEN q ELSE q + 1

RECURSIVE SeqSum(_)
SeqSum(s) == IF s = <<>> THEN 0 ELSE Head(s) + SeqSum(Tail(s))

RECURSIVE SeqMax(_)
SeqMax(s) == IF Len(s) = 1 THEN s[1] ELSE Max(Head(s), SeqMax(Tail(s)))

\* all sequences over S of length at most n
SeqsUpTo(S, n) == UNION {[1..k -> S] : k \in 0..n}

(***************************************************************************)
(* Python str primitives on texts.                                         *)
(***************************************************************************)
\* the characters str.strip() removes (str.isspace) that the model's
\* alphabet contains; "\f" stands for any white space other than blank,
\* tab and line ending (form feed, vertical tab, no-break space, ...)
WHITESPACE == {" ", "\t", "\n", "\r", "\f"}

startswith(s, p) == Len(p) <= Len(s) /\ SubSeq(s, 1, Len(p)) = p

\* str.replace(old, new): leftmost, non-overlapping
RECURSIVE str_replace(_, _, _)
str_replace(s, old, new) ==
    IF s = <<>> THEN <<>>
    ELSE IF startswith(s, old)
         THEN new \o str_replace(SubSeq(s, Len(old) + 1, Len(s)), old, new)
         ELSE <<Head(s)>> \o str_replace(Tail(s), old, new)

RECURSIVE lstrip(_)
lstrip(s) == IF s # <<>> /\ Head(s) \in WHITESPACE THEN lstrip(Tail(s)) ELSE s

RECURSIVE rstrip(_)
rstrip(s) ==
    IF s # <<>> /\ s[Len(s)] \in WHITESPACE
    THEN rstrip(SubSeq(s, 1, Len(s) - 1)) ELSE s

\* str.strip()
str_strip(s) == rstrip(lstrip(s))

\* str.find(c): index (from 1) of the first element equal to c, 0 if none
str_find(s, c) ==
    IF \E i \in 1..Len(s) : s[i] = c
    THEN CHOOSE i \in 1..Len(s) : s[i] = c /\ \A j \in 1..(i - 1) : s[j] # c
    ELSE 0

\* str.split(sep) for a one-character separator: "" splits into [""]
RECURSIVE str_split(_, _)
str_split(s, sep) ==
    LET i == str_find(s, sep)
    IN  IF i = 0 THEN <<s>>
        ELSE <<SubSeq(s, 1, i - 1)>> \o str_split(SubSeq(s, i + 1, Len(s)), sep)

\* sep.join(parts)
RECURSIVE str_join(_, _)
str_join(sep, parts) ==
    IF parts = <<>> THEN <<>>
    ELSE IF Len(parts) = 1 THEN parts[1]
    ELSE parts[1] \o sep \o str_join(sep, Tail(parts))

(***************************************************************************)
(* text/utils.py                                                           *)
(***************************************************************************)
\* re.sub(r"\{[^}]*\}", "", text)
RECURSIVE strip_ass_tags(_)
strip_ass_tags(text) ==
    IF text = <<>> THEN <<>>
    ELSE IF Head(text) = "{" /\ str_find(text, "}") # 0
         THEN strip_ass_tags(SubSeq(text, str_find(text, "}") + 1, Len(text)))
         ELSE <<Head(text)>> \o strip_ass_tags(Tail(text))

\* text.replace(r"\N", "\n").replace(r"\n", "\n")
ass_newlines_to_real(text) ==
    str_replace(str_replace(text, <<"\\", "N">>, <<"\n">>), <<"\\", "n">>, <<"\n">>)

\* text.replace("\n", r"\N")
real_newlines_to_ass(text) == str_replace(text, <<"\n">>, <<"\\", "N">>)

\* re.sub(r"[ \t]+", " ", text)
RECURSIVE collapse_blanks(_)
collapse_blanks(text) ==
    IF text = <<>> THEN <<>>
    ELSE IF Head(text) \in {" ", "\t"}
         THEN IF Len(text) > 1 /\ text[2] \in {" ", "\t"}
              THEN collapse_blanks(Tail(text))
              ELSE <<" ">> \o collapse_blanks(Tail(text))
         ELSE <<Head(text)>> \o collapse_blanks(Tail(text))

\* a faulty normalize_whitespace: line breaks are collapsed like blanks
normalize_whitespace_collapsing_newlines(text) ==
    str_strip(collapse_blanks(
        str_replace(str_replace(str_replace(text, <<"\r", "\n">>, <<"\n">>),
                                <<"\r">>, <<"\n">>),
                    <<"\n">>, <<" ">>)))

normalize_whitespace(text) ==
    str_strip(collapse_blanks(
        str_replace(str_replace(text, <<"\r", "\n">>, <<"\n">>), <<"\r">>, <<"\n">>)))

(***************************************************************************)
(* The font (PIL.ImageFont.FreeTypeFont): an advance per character, in     *)
(* half pixels, and the line metrics.  getlength is additive here, so      *)
(* appending a word to a line never makes the line narrower.               *)
(***************************************************************************)
Font ==
    [adv2 |-> [c \in {"a", "W", " "} |->
                   CASE c = "a" -> 11 [] c = "W" -> 30 [] c = " " -> 5],
     other2 |-> 9, ascent |-> 40, descent |-> 10]

\* 2 * font.getlength(line)
RECURSIVE getlength2(_, _)
getlength2(font, line) ==
    IF line = <<>> THEN 0
    ELSE (IF Head(line) \in DOMAIN font.adv2 THEN font.adv2[Head(line)]
          ELSE font.other2) + getlength2(font, Tail(line))

\* font.getmetrics()
getmetrics(font) == <<font.ascent, font.descent>>

(***************************************************************************)
(* text/wrapper.py                                                         *)
(***************************************************************************)
\* wrap_words with the fit test applied to the new word alone instead of the
\* candidate line
RECURSIVE wrap_words_word_only(_, _, _, _)
wrap_words_word_only(words, current, font, max_width_px) ==
    IF words = <<>>
    THEN IF current # <<>> THEN <<str_join(<<" ">>, current)>> ELSE <<>>
    ELSE LET word == Head(words)
         IN  IF current = <<>>
             THEN wrap_words_word_only(Tail(words), <<word>>, font, max_width_px)
             ELSE IF getlength2(font, word) <= 2 * max_width_px
                  THEN wrap_words_word_only(Tail(words), Append(current, word),
                                            font, max_width_px)
                  ELSE <<str_join(<<" ">>, current)>>
                       \o wrap_words_word_only(Tail(words), <<word>>, font, max_width_px)

\* the loop over the words of one line (wrapper.py 60-80): the output lines
RECURSIVE wrap_words(_, _, _, _)
wrap_words(words, current, font, max_width_px) ==
    IF words = <<>>
    THEN IF current # <<>> THEN <<str_join(<<" ">>, current)>> ELSE <<>>
    ELSE LET word == Head(words)
             candidate == str_join(<<" ">>, Append(current, word))
         IN  IF current = <<>>
             THEN wrap_words(Tail(words), <<word>>, font, max_width_px)
             ELSE IF getlength2(font, candidate) <= 2 * max_width_px
                  THEN wrap_words(Tail(words), Append(current, word), font, max_width_px)
                  ELSE <<str_join(<<" ">>, current)>>
                       \o wrap_words(Tail(words), <<word>>, font, max_width_px)

\* a faulty loop over the input lines: the words still in current after the
\* last word of a line are not appended
RECURSIVE wrap_lines_without_last_flush(_, _, _)
wrap_lines_without_last_flush(lines_in, font, max_width_px) ==
    IF lines_in = <<>> THEN <<>>
    ELSE LET raw_line == str_strip(Head(lines_in))
         IN  (IF raw_line = <<>> THEN << <<>> >>
              ELSE SubSeq(wrap_words(str_split(raw_line, " "), <<>>, font, max_width_px),
                          1, Len(wrap_words(str_split(raw_line, " "), <<>>, font,
                                            max_width_px)) - 1))
             \o wrap_lines_without_last_flush(Tail(lines_in), font, max_width_px)

\* the loop over the input lines (wrapper.py 50-80): lines_out
RECURSIVE wrap_lines(_, _, _)
wrap_lines(lines_in, font, max_width_px) ==
    IF lines_in = <<>> THEN <<>>
    ELSE LET raw_line == str_strip(Head(lines_in))
         IN  (IF raw_line = <<>> THEN << <<>> >>
              ELSE wrap_words(str_split(raw_line, " "), <<>>, font, max_width_px))
             \o wrap_lines(Tail(lines_in), font, max_width_px)

\* a faulty wrap_text_to_width: only a negative width disables wrapping
wrap_text_to_width_zero_wraps(text, font, max_width_px) ==
    LET t == normalize_whitespace(text)
    IN  IF max_width_px < 0 THEN t
        ELSE str_join(<<"\n">>, wrap_lines(str_split(t, "\n"), font, max_width_px))

wrap_text_to_width(text, font, max_width_px) ==
    LET t == normalize_whitespace(text)
    IN  IF max_width_px <= 0 THEN t
        ELSE str_join(<<"\n">>, wrap_lines(str_split(t, "\n"), font, max_width_px))

(***************************************************************************)
(* text/measurement.py                                                     *)
(***************************************************************************)
\* int(math.ceil(font.getlength(text)))
measure_single_line(text, font) == CeilDiv(getlength2(font, text), 2)

\* a faulty measure_multiline: a negative line spacing counts as 0
measure_multiline_clamped_spacing(text, font, line_spacing_px) ==
    LET lines == IF text # <<>> THEN str_split(text, "\n") ELSE << <<>> >>
        widths == [i \in 1..Len(lines) |-> measure_single_line(lines[i], font)]
        line_height == getmetrics(font)[1] + getmetrics(font)[2]
    IN  <<SeqMax(widths),
          Len(lines) * line_height + Max(0, Len(lines) - 1) * Max(0, line_spacing_px),
          Len(lines)>>

\* (max_line_width_px, total_height_px, line_count)
measure_multiline(text, font, line_spacing_px) ==
    LET lines == IF text # <<>> THEN str_split(text, "\n") ELSE << <<>> >>
        widths == [i \in 1..Len(lines) |-> measure_single_line(lines[i], font)]
        max_width == IF widths # <<>> THEN SeqMax(widths) ELSE 0
        line_height == getmetrics(font)[1] + getmetrics(font)[2]
        total_height == Len(lines) * line_height
                        + Max(0, Len(lines) - 1) * line_spacing_px
    IN  <<max_width, total_height, Len(lines)>>

(***************************************************************************)
(* core/sizing.py.  A preset is a record with the PresetConfig fields the  *)
(* code reads: max_width_px, line_spacing, padding (a sequence), outline4  *)
(* and shadow4 (outline_px and shadow_px in quarter pixels), animation.    *)
(* safety_scale is given in hundredths.                                    *)
(***************************************************************************)
\* the text compute_size wraps for one event (sizing.py 132-133)
visible_text(event_text) == normalize_whitespace(strip_ass_tags(event_text))

\* (w, h, line_count) of one event (sizing.py 132-139)
measure_event(event_text, p, font) ==
    measure_multiline(
        wrap_text_to_width(visible_text(event_text), font, p.max_width_px),
        font, p.line_spacing)

\* the loop over subs.events (sizing.py 123-142): <<max_w, max_h>>
RECURSIVE max_extent(_, _, _)
max_extent(evs, p, font) ==
    IF evs = <<>> THEN <<0, 0>>
    ELSE LET rest == max_extent(SubSeq(evs, 1, Len(evs) - 1), p, font)
             m == measure_event(evs[Len(evs)].text, p, font)
         IN  <<Max(rest[1], m[1]), Max(rest[2], m[2])>>

\* a faulty extra_allowance: the shadow is left out
extra_allowance_outline_only(p) == CeilDiv(p.outline4, 2)

\* int(math.ceil(outline_px * 2 + shadow_px * 2)) (sizing.py 147-148)
extra_allowance(p) == CeilDiv(p.outline4 + p.shadow4, 2)

\* a faulty ensure_even: the dimension is left as it is
ensure_even_skipped(n) == n

\* if n % 2 == 1: n += 1 (sizing.py 163-166)
ensure_even(n) == IF n % 2 = 1 THEN n + 1 ELSE n

\* max(n, 64) (sizing.py 159-160)
ensure_minimum(n) == Max(n, 64)

\* a faulty scaled: the extent is divided by the scale
scaled_inverted(extent, safety_scale) ==
    IF safety_scale <= 0 THEN 0 ELSE CeilDiv(extent * 100, safety_scale)

\* int(math.ceil(extent * safety_scale)) (sizing.py 151-156)
scaled(extent, safety_scale) == CeilDiv(extent * safety_scale, 100)

\* a faulty compute_size: top/bottom padding is added to the width and
\* left/right padding to the height
compute_size_padding_swapped(evs, p, safety_scale, font) ==
    IF Len(p.padding) # 4
    THEN [raised |-> "ValueError", width |-> 0, height |-> 0]
    ELSE LET m == max_extent(evs, p, font)
             w_final == scaled(m[1] + p.padding[1] + p.padding[3] + extra_allowance(p),
                               safety_scale)
             h_final == scaled(m[2] + p.padding[4] + p.padding[2] + extra_allowance(p),
                               safety_scale)
         IN  [raised |-> None,
              width |-> ensure_even(ensure_minimum(w_final)),
              height |-> ensure_even(ensure_minimum(h_final))]

\* SizeCalculator.compute_size: [raised, width, height]
compute_size(evs, p, safety_scale, font) ==
    IF Len(p.padding) # 4
    THEN [raised |-> "ValueError", width |-> 0, height |-> 0]
    ELSE LET pad_t == p.padding[1]
             pad_r == p.padding[2]
             pad_b == p.padding[3]
             pad_l == p.padding[4]
             m == max_extent(evs, p, font)
             w_final == scaled(m[1] + pad_l + pad_r + extra_allowance(p), safety_scale)
             h_final == scaled(m[2] + pad_t + pad_b + extra_allowance(p), safety_scale)
         IN  [raised |-> None,
              width |-> ensure_even(ensure_minimum(w_final)),
              height |-> ensure_even(ensure_minimum(h_final))]

compute_anchor_position(p, sz) ==
    LET pad_t == p.padding[1]
        pad_r == p.padding[2]
        pad_b == p.padding[3]
        pad_l == p.padding[4]
        left == pad_l
        right == sz.width - pad_r
        top == pad_t
        bottom == sz.height - pad_b
    IN  <<(left + right) \div 2, (top + bottom) \div 2>>

(***************************************************************************)
(* animations/base.py, fade.py, slide.py, scale.py, blur.py, registry.py   *)
(* Animation parameters are a function from the keys present to values.    *)
(***************************************************************************)
\* BaseAnimation._clamp
clamp(val, min_val, max_val) == Max(min_val, Min(max_val, val))

\* dict.get(key, default)
param_get(params, key, default) ==
    IF key \in DOMAIN params THEN params[key] ELSE default

\* AnimationRegistry._animations: the registered animation types
REGISTERED_TYPES == {"fade", "slide_up", "scale_settle", "blur_settle", "word_reveal"}

\* the keys validate_params requires, in the order it tests them
required_params(atype) ==
    CASE atype = "fade" -> <<"in_ms", "out_ms">>
      [] atype = "slide_up" -> <<"in_ms", "out_ms", "move_px">>
      [] atype = "scale_settle" -> <<"in_ms", "out_ms">>
      [] atype = "blur_settle" -> <<"in_ms", "out_ms">>
      [] atype = "word_reveal" -> <<>>

\* <Animation>.validate_params: None, or the ValueError for the first missing key
validate_params(atype, params) ==
    LET req == required_params(atype)
        missing == {i \in 1..Len(req) : req[i] \notin DOMAIN params}
    IN  IF missing # {} THEN "ValueError" ELSE None

\* AnimationRegistry.create: get() then BaseAnimation.__init__
registry_create(atype, params) ==
    IF atype \notin REGISTERED_TYPES
    THEN [raised |-> "ValueError", type |-> atype, params |-> params]
    ELSE [raised |-> validate_params(atype, params), type |-> atype, params |-> params]

\* the \fad(in,out) tag
fad_tag(in_ms, out_ms) == <<"\\fad(", ToString(in_ms), ",", ToString(out_ms), ")">>

\* <Animation>.generate_ass_override
generate_ass_override(atype, params) ==
    CASE atype = "fade" ->
            fad_tag(clamp(params["in_ms"], 0, 2000), clamp(params["out_ms"], 0, 2000))
      [] atype = "slide_up" ->
            LET in_ms == clamp(params["in_ms"], 0, 4000)
                out_ms == clamp(params["out_ms"], 0, 2000)
            IN  fad_tag(in_ms, out_ms)
                \o <<"\\move(", "{", "X", "}", ",", "{", "Y_PLUS_DY", "}", ",",
                     "{", "X", "}", ",", "{", "Y", "}", ",0,", ToString(in_ms), ")">>
      [] atype = "scale_settle" ->
            LET in_ms == clamp(params["in_ms"], 0, 4000)
                out_ms == clamp(params["out_ms"], 0, 2000)
                start == ToString(param_get(params, "start_scale", 110))
                end == ToString(param_get(params, "end_scale", 100))
                accel == param_get(params, "accel", "1.0")
            IN  <<"\\fscx", start, "\\fscy", start, "\\t(0,", ToString(in_ms), ",",
                  accel, ",\\fscx", end, "\\fscy", end, ")">>
                \o fad_tag(in_ms, out_ms)
      [] atype = "blur_settle" ->
            LET in_ms == clamp(params["in_ms"], 0, 4000)
                out_ms == clamp(params["out_ms"], 0, 2000)
                start_blur == ToString(param_get(params, "start_blur", 4))
                end_blur == ToString(param_get(params, "end_blur", 0))
                accel == param_get(params, "accel", "1.0")
            IN  <<"\\blur", start_blur, "\\t(0,", ToString(in_ms), ",", accel,
                  ",\\blur", end_blur, ")">>
                \o fad_tag(in_ms, out_ms)
      [] atype = "word_reveal" -> <<>>

\* a faulty _inject_override: a new block is always put in front
inject_override_always_new_block(text, override) ==
    IF override = <<>> THEN text ELSE <<"{">> \o override \o <<"}">> \o text

\* BaseAnimation._inject_override
inject_override(text, override) ==
    IF override = <<>> THEN text
    ELSE IF text # <<>> /\ Head(text) = "{" /\ str_find(text, "}") # 0
         THEN LET end == str_find(text, "}")
                  head == SubSeq(text, 2, end - 1)
                  rest == SubSeq(text, end + 1, Len(text))
              IN  <<"{">> \o override \o head \o <<"}">> \o rest
         ELSE <<"{">> \o override \o <<"}">> \o text

\* a faulty substitute_placeholders: Y_PLUS_DY is replaced by y
substitute_placeholders_without_move(atype, params, text, pos) ==
    IF atype = "slide_up"
    THEN str_replace(
             str_replace(
                 str_replace(text, <<"{", "X", "}">>, <<ToString(pos[1])>>),
                 <<"{", "Y", "}">>, <<ToString(pos[2])>>),
             <<"{", "Y_PLUS_DY", "}">>, <<ToString(pos[2])>>)
    ELSE text

\* SlideUpAnimation.substitute_placeholders / BaseAnimation.substitute_placeholders
substitute_placeholders(atype, params, text, pos) ==
    IF atype = "slide_up"
    THEN LET x == pos[1]
             y == pos[2]
             y_plus_dy == y + params["move_px"]
         IN  str_replace(
                 str_replace(
                     str_replace(text, <<"{", "X", "}">>, <<ToString(x)>>),
                     <<"{", "Y", "}">>, <<ToString(y)>>),
                 <<"{", "Y_PLUS_DY", "}">>, <<ToString(y_plus_dy)>>)
    ELSE text

supports_placeholder_substitution(atype) == atype = "slide_up"

(***************************************************************************)
(* animations/word_reveal.py                                               *)
(***************************************************************************)
\* characters that are neither \w nor \s
PUNCTUATION == {".", ",", "!", "?", "'", "\"", "(", ")", "[", "]", "{", "}", "\\", "#", "&"}

is_space(c) == c \in WHITESPACE
is_word_char(c) == c \notin WHITESPACE /\ c \notin PUNCTUATION
is_punct(c) == c \in PUNCTUATION
\* str.isalnum() on one character: \w without the underscore
is_alnum(c) == is_word_char(c) /\ c # "_"

\* length of the longest prefix of s whose characters all satisfy the class
\* named by cls ("w": \w, "p": [^\w\s])
RECURSIVE run_length(_, _)
run_length(s, cls) ==
    IF s # <<>> /\ ((cls = "w" /\ is_word_char(Head(s))) \/ (cls = "p" /\ is_punct(Head(s))))
    THEN 1 + run_length(Tail(s), cls) ELSE 0

\* length of the match of \w+(?:'\w+)?[^\w\s]*|[^\w\s]+ at the start of s, 0 if none
token_match_length(s) ==
    LET w == run_length(s, "w")
        after_w == SubSeq(s, w + 1, Len(s))
        apos == IF after_w # <<>> /\ Head(after_w) = "'"
                   /\ run_length(Tail(after_w), "w") > 0
                THEN 1 + run_length(Tail(after_w), "w") ELSE 0
        after_apos == SubSeq(s, w + apos + 1, Len(s))
    IN  IF w > 0 THEN w + apos + run_length(after_apos, "p")
        ELSE run_length(s, "p")

\* WordRevealAnimation._tokenize_words: re.findall
RECURSIVE tokenize_words(_)
tokenize_words(text) ==
    IF text = <<>> THEN <<>>
    ELSE LET n == token_match_length(text)
         IN  IF n = 0 THEN tokenize_words(Tail(text))
             ELSE <<SubSeq(text, 1, n)>> \o tokenize_words(SubSeq(text, n + 1, Len(text)))

\* the loop of _tokenize_with_newlines over the lines
RECURSIVE tokenize_lines(_)
tokenize_lines(lines) ==
    IF Len(lines) = 1 THEN tokenize_words(lines[1])
    ELSE tokenize_words(Head(lines)) \o << <<"\n">> >> \o tokenize_lines(Tail(lines))

\* a faulty _tokenize_with_newlines: the marker \N is not taken as a line break
tokenize_with_newlines_raw_only(text) == tokenize_lines(str_split(text, "\n"))

\* WordRevealAnimation._tokenize_with_newlines
tokenize_with_newlines(text) ==
    tokenize_lines(str_split(str_replace(text, <<"\\", "N">>, <<"\n">>), "\n"))

\* a faulty _is_word_token: punctuation counts as a word
is_word_token_any(token) == token # <<"\n">> /\ token # <<>>

\* WordRevealAnimation._is_word_token
is_word_token(token) ==
    token # <<"\n">> /\ token # <<>> /\ is_word_char(Head(token))

\* str(mode).strip().lower()
normalize_mode(mode) ==
    CASE mode = "Weighted " -> "weighted"
      [] mode = " EVEN" -> "even"
      [] OTHER -> mode

\* a faulty renormalize: the clamped allocation is returned as it is
renormalize_skipped(token_ms, available_ms) == token_ms

\* "Renormalize to match available_ms" (word_reveal.py 209-213)
renormalize(token_ms, available_ms) ==
    LET total_alloc == SeqSum(token_ms)
    IN  IF total_alloc > 0
        THEN [i \in 1..Len(token_ms) |-> RoundDiv(token_ms[i] * available_ms, total_alloc)]
        ELSE token_ms

\* WordRevealAnimation._allocate_timing: [raised, token_ms]
allocate_timing(tokens, word_indices, available_ms, mode, min_word_ms, max_word_ms) ==
    LET n_words == Cardinality(word_indices)
        total == LET t == SeqSum([i \in 1..Len(tokens) |->
                                     IF i \in word_indices THEN Len(tokens[i]) ELSE 0])
                 IN  IF t = 0 THEN 1 ELSE t
        word_ms(i) ==
            IF mode = "even" THEN RoundDiv(available_ms, Max(1, n_words))
            ELSE RoundDiv(available_ms * Len(tokens[i]), total)
        standalone_punct(i) ==
            /\ tokens[i] # <<"\n">>
            /\ ~is_word_token(tokens[i])
            /\ str_strip(tokens[i]) # <<>>
        clamped == [i \in 1..Len(tokens) |->
                       IF i \in word_indices
                       THEN clamp(word_ms(i), min_word_ms, max_word_ms)
                       ELSE IF standalone_punct(i)
                            THEN Min(50, available_ms \div Max(1, Len(tokens)))
                            ELSE 0]
    IN  IF mode \notin {"even", "weighted"}
        THEN [raised |-> "ValueError", token_ms |-> <<>>]
        ELSE [raised |-> None, token_ms |-> renormalize(clamped, available_ms)]

\* ms_to_cs
ms_to_cs(ms) == Max(0, RoundDiv(ms, 10))

\* str.upper() on a hex digit
hex_upper(c) ==
    CASE c = "a" -> "A" [] c = "b" -> "B" [] c = "c" -> "C"
      [] c = "d" -> "D" [] c = "e" -> "E" [] c = "f" -> "F" [] OTHER -> c

\* the loop of _build_output over the tokens from index i on
RECURSIVE build_tokens(_, _, _, _)
build_tokens(tokens, token_ms, i, prev_token) ==
    IF i > Len(tokens) THEN <<>>
    ELSE LET token == tokens[i]
         IN  IF token = <<"\n">>
             THEN <<"\\", "N">> \o build_tokens(tokens, token_ms, i + 1, token)
             ELSE LET no_space_before ==
                          /\ token # <<>>
                          /\ ~is_alnum(token[1])
                          /\ token[1] \notin {"'", "\""}
                      no_space_after ==
                          /\ prev_token # <<>>
                          /\ prev_token[Len(prev_token)] \in {"'", "\"", "(", "[", "{"}
                      space == IF prev_token # None /\ prev_token # <<"\n">>
                                  /\ ~no_space_before /\ ~no_space_after
                               THEN <<" ">> ELSE <<>>
                  IN  space \o <<"{", "\\k", ToString(ms_to_cs(token_ms[i])), "}">>
                      \o token \o build_tokens(tokens, token_ms, i + 1, token)

\* WordRevealAnimation._build_output
build_output(params, tokens, token_ms, lead_in_ms) ==
    LET unrevealed_color == param_get(params, "unrevealed_color", None)
        color == IF unrevealed_color # None /\ unrevealed_color # <<>>
                    /\ Head(unrevealed_color) = "#" /\ Len(unrevealed_color) = 7
                 THEN <<"{", "\\2c", "&", "H">>
                      \o [k \in 1..6 |-> hex_upper(unrevealed_color[
                              CASE k = 1 -> 6 [] k = 2 -> 7 [] k = 3 -> 4
                                [] k = 4 -> 5 [] k = 5 -> 2 [] k = 6 -> 3])]
                      \o <<"}">>
                 ELSE <<>>
        lead_in == IF lead_in_ms > 0
                   THEN <<"{", "\\k", ToString(ms_to_cs(lead_in_ms)), "}">> ELSE <<>>
    IN  color \o lead_in \o build_tokens(tokens, token_ms, 1, None)

\* WordRevealAnimation._build_karaoke_text:
\* [raised, text, applied (reveal timing was applied), tokens, token_ms, available_ms]
build_karaoke_text(params, plain_text, event_duration_ms) ==
    LET tokens == tokenize_with_newlines(plain_text)
        lead_in_ms == param_get(params, "lead_in_ms", 0)
        min_word_ms == param_get(params, "min_word_ms", 60)
        max_word_ms == param_get(params, "max_word_ms", 400)
        mode == normalize_mode(param_get(params, "mode", "even"))
        available_ms == Max(0, event_duration_ms - lead_in_ms)
        word_indices == {i \in 1..Len(tokens) : is_word_token(tokens[i])}
        alloc == allocate_timing(tokens, word_indices, available_ms, mode,
                                 min_word_ms, max_word_ms)
        unchanged == [raised |-> None, text |-> plain_text, applied |-> FALSE,
                      tokens |-> tokens, token_ms |-> <<>>,
                      available_ms |-> available_ms]
    IN  IF tokens = <<>> THEN unchanged
        ELSE IF available_ms <= 0 THEN unchanged
        ELSE IF word_indices = {} THEN unchanged
        ELSE IF alloc.raised # None
             THEN [unchanged EXCEPT !.raised = alloc.raised]
             ELSE [raised |-> None,
                   text |-> build_output(params, tokens, alloc.token_ms, lead_in_ms),
                   applied |-> TRUE, tokens |-> tokens,
                   token_ms |-> alloc.token_ms, available_ms |-> available_ms]

\* <Animation>.apply_to_event: [raised, text]
apply_to_event(atype, params, event) ==
    IF atype = "word_reveal"
    THEN LET r == build_karaoke_text(params, event.text, event.end - event.start)
         IN  [raised |-> r.raised, text |-> r.text]
    ELSE [raised |-> None,
          text |-> inject_override(event.text, generate_ass_override(atype, params))]

(***************************************************************************)
(* core/subtitle.py                                                        *)
(***************************************************************************)
\* SubtitleFile.apply_style with wrap_text=True: the loop over the events
apply_style(evs, p, font) ==
    [i \in 1..Len(evs) |->
        [evs[i] EXCEPT
            !.style = "Default",
            !.text = real_newlines_to_ass(
                         wrap_text_to_width(
                             normalize_whitespace(ass_newlines_to_real(@)),
                             font, p.max_width_px))]]

\* the loop of SubtitleFile.apply_animation, given the outcome applied[i] of
\* apply_to_event on each event: the events are changed in place, in order,
\* until apply_to_event raises: [raised, events]
animation_loop(evs, applied) ==
    LET failing == {i \in 1..Len(evs) : applied[i].raised # None}
        first == IF failing = {} THEN Len(evs) + 1
                 ELSE CHOOSE i \in failing : \A j \in failing : i <= j
    IN  [raised |-> IF failing = {} THEN None ELSE applied[first].raised,
         events |-> [i \in 1..Len(evs) |->
                        IF i < first THEN [evs[i] EXCEPT !.text = applied[i].text]
                        ELSE evs[i]]]

\* SubtitleFile.apply_animation
apply_animation(evs, anim) ==
    animation_loop(evs, [i \in 1..Len(evs) |->
                            apply_to_event(anim.type, anim.params, evs[i])])

\* a faulty apply_center_positioning: the two coordinates are exchanged
center_positioned_exchanged(text, pos) ==
    <<"{", "\\an5\\pos(", ToString(pos[2]), ",", ToString(pos[1]), ")", "}">> \o text

\* SubtitleFile.apply_center_positioning: the new text of one event
center_positioned(text, pos) ==
    LET pos_override == <<"\\an5\\pos(", ToString(pos[1]), ",", ToString(pos[2]), ")">>
    IN  IF text # <<>> /\ Head(text) = "{" /\ str_find(text, "}") # 0
        THEN LET end == str_find(text, "}")
                 head == SubSeq(text, 2, end - 1)
                 rest == SubSeq(text, end + 1, Len(text))
             IN  <<"{">> \o pos_override \o head \o <<"}">> \o rest
        ELSE <<"{">> \o pos_override \o <<"}">> \o text

\* SubtitleFile.get_duration_ms
RECURSIVE get_duration_ms(_)
get_duration_ms(evs) ==
    IF evs = <<>> THEN 0 ELSE Max(Head(evs).end, get_duration_ms(Tail(evs)))

(***************************************************************************)
(* cli/main.py: render_subtitle, one action per stage.                     *)
(***************************************************************************)
\* the order of the stages in render_subtitle as the specification states it
\* (size and position before the animation pass), which the code does not follow
PIPELINE_size_first ==
    <<"style", "size", "position", "animate", "play_res", "save", "substitute", "render">>

\* the order of the stages in the body of render_subtitle
PIPELINE ==
    <<"style", "animate", "size", "position", "play_res", "save", "substitute", "render">>

\* the stage render_subtitle is about to run
Stage == IF error = None /\ pc \in 1..Len(PIPELINE) THEN PIPELINE[pc] ELSE None

\* apply_animation as decided from the arguments (main.py 53-58)
effective_apply_animation(a) ==
    IF a.no_animation THEN FALSE
    ELSE IF a.ext = "srt" /\ ~a.apply_animation /\ ~a.no_animation THEN TRUE
    ELSE a.apply_animation

\* "apply_animation and preset.animation"; preset.animation is <<>> when the
\* preset has no animation and <<[type, params]>> when it has one
animation_requested == effective_apply_animation(args) /\ preset.animation # <<>>

SampleTexts ==
    { <<"a">>,
      <<"a", "\\", "N", "a">>,
      <<"a", " ", "a", " ", "a">>,
      <<"{", "\\", "i", "1", "}", "a">>,
      <<".">> }

SampleAnimations ==
    { [type |-> "fade", params |-> [in_ms |-> 120, out_ms |-> 120]],
      [type |-> "fade", params |-> [in_ms |-> 120]],
      [type |-> "slide_up", params |-> [in_ms |-> 140, out_ms |-> 120, move_px |-> 26]],
      [type |-> "scale_settle", params |-> [in_ms |-> 200, out_ms |-> 120]],
      [type |-> "blur_settle", params |-> [in_ms |-> 200, out_ms |-> 120]],
      [type |-> "word_reveal", params |-> [mode |-> "even"]],
      [type |-> "word_reveal", params |-> [mode |-> "bogus"]] }

SamplePaddings == { <<2, 3, 4, 5>>, <<2, 3, 4>> }

Init ==
    /\ pc = 1
    /\ args \in [ext : {"srt", "ass"}, reskin : BOOLEAN,
                 apply_animation : BOOLEAN, no_animation : BOOLEAN,
                 safety_scale : {100, 112}]
    /\ preset \in [max_width_px : {0, 14}, line_spacing : {8},
                   padding : SamplePaddings, outline4 : {16}, shadow4 : {8},
                   animation : {<<>>} \cup {<<a>> : a \in SampleAnimations}]
    /\ \E texts \in SeqsUpTo(SampleTexts, MaxEvents) :
           events = [i \in 1..Len(texts) |->
                        [start |-> 0, end |-> 2000, text |-> texts[i], style |-> "Loaded"]]
    /\ loaded = events
    /\ size = None /\ position = None
    /\ info = [WrapStyle |-> None, PlayResX |-> None, PlayResY |-> None]
    /\ ass_file = None /\ render_call = None /\ error = None
    /\ trace = <<>> /\ pre_anim = <<>> /\ measured = <<>>
    /\ call = None /\ ret = <<>>

\* main.py 73-77: subtitle.apply_style(style, preset, wrap_text=True)
StepStyle ==
    /\ Stage = "style"
    /\ IF args.ext = "srt" \/ args.reskin
       THEN /\ events' = apply_style(events, preset, Font)
            /\ info' = [info EXCEPT !.WrapStyle = "2"]
            /\ trace' = Append(trace, "style")
       ELSE UNCHANGED <<events, info, trace>>
    /\ pc' = pc + 1
    /\ UNCHANGED <<args, preset, size, position, ass_file, render_call, error,
                   loaded, pre_anim, measured, call, ret>>

\* main.py 80-86 once the animation is created: subtitle.apply_animation
Animate(anim, r) ==
    IF anim.raised # None
    THEN /\ error' = "animation_params"
         /\ UNCHANGED <<events, trace, pre_anim>>
    ELSE /\ events' = r.events
         /\ pre_anim' = [i \in 1..Len(events) |-> events[i].text]
         /\ trace' = Append(trace, "animate")
         /\ error' = IF r.raised # None THEN "word_reveal_mode" ELSE None

\* main.py 80-86: AnimationRegistry.create, subtitle.apply_animation
StepAnimate ==
    /\ Stage = "animate"
    /\ IF animation_requested
       THEN Animate(registry_create(preset.animation[1].type, preset.animation[1].params),
                    apply_animation(events, preset.animation[1]))
       ELSE UNCHANGED <<events, trace, pre_anim, error>>
    /\ pc' = pc + 1
    /\ UNCHANGED <<args, preset, size, position, info, ass_file, render_call,
                   loaded, measured, call, ret>>

\* main.py 88-92 once compute_size has returned or raised
Sized(sz) ==
    IF sz.raised # None
    THEN /\ error' = "padding"
         /\ UNCHANGED <<size, measured, trace>>
    ELSE /\ size' = [width |-> sz.width, height |-> sz.height]
         /\ measured' = [i \in 1..Len(events) |-> visible_text(events[i].text)]
         /\ trace' = Append(trace, "size")
         /\ error' = None

\* main.py 88-92: SizeCalculator(preset, safety_scale).compute_size(subtitle.subs)
StepSize ==
    /\ Stage = "size"
    /\ Sized(compute_size(events, preset, args.safety_scale, Font))
    /\ pc' = pc + 1
    /\ UNCHANGED <<args, preset, events, position, info, ass_file, render_call,
                   loaded, pre_anim, call, ret>>

\* main.py 94-96: compute_anchor_position, subtitle.apply_center_positioning
StepPosition ==
    /\ Stage = "position"
    /\ LET pos == compute_anchor_position(preset, size)
       IN  /\ position' = pos
           /\ events' = [i \in 1..Len(events) |->
                            [events[i] EXCEPT !.text = center_positioned(@, pos)]]
    /\ trace' = Append(trace, "position")
    /\ pc' = pc + 1
    /\ UNCHANGED <<args, preset, size, info, ass_file, render_call, error,
                   loaded, pre_anim, measured, call, ret>>

\* main.py 98-99: subtitle.set_play_resolution(size)
StepPlayRes ==
    /\ Stage = "play_res"
    /\ info' = [info EXCEPT !.PlayResX = ToString(size.width),
                            !.PlayResY = ToString(size.height)]
    /\ trace' = Append(trace, "play_res")
    /\ pc' = pc + 1
    /\ UNCHANGED <<args, preset, events, size, position, ass_file, render_call,
                   error, loaded, pre_anim, measured, call, ret>>

\* main.py 101-102: subtitle.save(ass_path)
StepSave ==
    /\ Stage = "save"
    /\ ass_file' = [info |-> info,
                    texts |-> [i \in 1..Len(events) |-> events[i].text]]
    /\ trace' = Append(trace, "save")
    /\ pc' = pc + 1
    /\ UNCHANGED <<args, preset, events, size, position, info, render_call,
                   error, loaded, pre_anim, measured, call, ret>>

\* main.py 104-113: placeholder substitution in the saved file for slide_up
StepSubstitute ==
    /\ Stage = "substitute"
    /\ IF animation_requested /\ preset.animation[1].type = "slide_up"
       THEN LET anim == registry_create(preset.animation[1].type, preset.animation[1].params)
            IN  IF anim.raised # None
                THEN /\ error' = "animation_params"
                     /\ UNCHANGED <<ass_file, trace>>
                ELSE /\ ass_file' =
                            [ass_file EXCEPT !.texts =
                                [i \in 1..Len(@) |->
                                    substitute_placeholders(anim.type, anim.params,
                                                            @[i], position)]]
                     /\ trace' = Append(trace, "substitute")
                     /\ error' = None
       ELSE UNCHANGED <<ass_file, trace, error>>
    /\ pc' = pc + 1
    /\ UNCHANGED <<args, preset, events, size, position, info, render_call,
                   loaded, pre_anim, measured, call, ret>>

\* main.py 115-134: duration and FFmpegRenderer.render (duration in ms)
StepRender ==
    /\ Stage = "render"
    /\ render_call' = [width |-> size.width, height |-> size.height,
                       duration_ms |-> get_duration_ms(events) + 250]
    /\ trace' = Append(trace, "render")
    /\ pc' = pc + 1
    /\ UNCHANGED <<args, preset, events, size, position, info, ass_file, error,
                   loaded, pre_anim, measured, call, ret>>

Next ==
    \/ StepStyle \/ StepAnimate \/ StepSize \/ StepPosition
    \/ StepPlayRes \/ StepSave \/ StepSubstitute \/ StepRender

Spec == Init /\ [][Next]_vars

(***************************************************************************)
(* Direct calls of wrap_text_to_width.                                     *)
(***************************************************************************)
PipelineIdle ==
    /\ pc = 0 /\ args = None /\ preset = None /\ events = <<>>
    /\ size = None /\ position = None /\ info = None /\ ass_file = None
    /\ render_call = None /\ error = None /\ loaded = <<>> /\ trace = <<>>
    /\ pre_anim = <<>> /\ measured = <<>>

WrapAlphabet == {"a", "W", " ", "\n", "\f"}
WrapWidths == {0 - 1, 0, 6, 14, 20}

InitWrap ==
    /\ PipelineIdle
    /\ \E text \in SeqsUpTo(WrapAlphabet, MaxTextLen), w \in WrapWidths :
           call = [fn |-> "wrap_text_to_width", text |-> text, max_width_px |-> w]
    /\ ret = <<>>

\* wrapped = wrap_text_to_width(text, font, max_width_px)
CallWrap ==
    /\ call.fn = "wrap_text_to_width" /\ Len(ret) = 0
    /\ ret' = <<wrap_text_to_width(call.text, Font, call.max_width_px)>>
    /\ UNCHANGED <<call, pipeline_vars>>

\* wrap_text_to_width(wrapped, font, max_width_px): wrapping the output again
CallRewrap ==
    /\ call.fn = "wrap_text_to_width" /\ Len(ret) = 1
    /\ ret' = Append(ret, wrap_text_to_width(ret[1], Font, call.max_width_px))
    /\ UNCHANGED <<call, pipeline_vars>>

NextWrap == CallWrap \/ CallRewrap

SpecWrap == InitWrap /\ [][NextWrap]_vars

(***************************************************************************)
(* Claims about wrap_text_to_width.                                        *)
(***************************************************************************)
Lines(text) == str_split(text, "\n")
LineSet(text) == {Lines(text)[i] : i \in 1..Len(Lines(text))}
Words(line) == str_split(line, " ")

\* C9 (wrap width invariant): with max_width_px > 0, every non-empty line of
\* the output of wrap_text_to_width has a measured width of at most
\* max_width_px, unless the line is a single word that is itself wider.
C9_WrapWidthInvariant ==
    (Len(ret) >= 1 /\ call.fn = "wrap_text_to_width" /\ call.max_width_px > 0) =>
        \A line \in LineSet(ret[1]) :
            line # <<>> =>
                \/ measure_single_line(line, Font) <= call.max_width_px
                \/ /\ Len(Words(line)) = 1
                   /\ measure_single_line(line, Font) > call.max_width_px

\* C9 witness: wrapping broke a line (the output has more lines than the
\* normalized input), one output line holds several words, and another is
\* a single word wider than the budget.
C9_Witness ==
    /\ Len(ret) >= 1 /\ call.fn = "wrap_text_to_width" /\ call.max_width_px > 0
    /\ Len(Lines(ret[1])) > Len(Lines(normalize_whitespace(call.text)))
    /\ \E line \in LineSet(ret[1]) : Len(Words(line)) > 1
    /\ \E line \in LineSet(ret[1]) :
           measure_single_line(line, Font) > call.max_width_px

\* C10 (wrap idempotence): wrapping the output of wrap_text_to_width again at
\* the same width returns that output unchanged (the width measure of Font is
\* additive, so appending a word never makes a line narrower).
C10_WrapIdempotent ==
    (Len(ret) = 2 /\ call.fn = "wrap_text_to_width") => ret[2] = ret[1]

(***************************************************************************)
(* Direct calls of SizeCalculator.compute_size.                            *)
(***************************************************************************)
SizeTexts ==
    { <<>>,
      <<"a">>,
      <<"W", " ", "W", " ", "W">>,
      <<"a", "\n", "a">> }

SizePadValues == {0 - 40, 0, 7}
SizePaddings == [1..4 -> SizePadValues]
SizeScales == {0 - 100, 0, 50, 100, 112, 333}

InitSize ==
    /\ PipelineIdle
    /\ \E texts \in SeqsUpTo(SizeTexts, MaxEvents),
          padding \in SizePaddings,
          outline4 \in {0, 5, 16}, shadow4 \in {0, 8},
          scale \in SizeScales :
           call = [fn |-> "compute_size",
                   events |-> [i \in 1..Len(texts) |-> [text |-> texts[i]]],
                   preset |-> [max_width_px |-> 20, line_spacing |-> 8,
                               padding |-> padding,
                               outline4 |-> outline4, shadow4 |-> shadow4],
                   safety_scale |-> scale]
    /\ ret = <<>>

\* size = SizeCalculator(preset, safety_scale).compute_size(subs)
CallComputeSize ==
    /\ call.fn = "compute_size" /\ Len(ret) = 0
    /\ ret' = <<compute_size(call.events, call.preset, call.safety_scale, Font)>>
    /\ UNCHANGED <<call, pipeline_vars>>

NextSize == CallComputeSize

SpecSize == InitSize /\ [][NextSize]_vars

\* C3 (even-dimension invariant): for all events, paddings of 4 entries,
\* outline/shadow values and safety scales, the width and the height
\* returned by compute_size are both even and both at least 64.
C3_EvenAndAtLeast64 ==
    (Len(ret) = 1 /\ call.fn = "compute_size") =>
        /\ ret[1].raised = None
        /\ ret[1].width % 2 = 0 /\ ret[1].height % 2 = 0
        /\ ret[1].width >= 64 /\ ret[1].height >= 64

\* C3 witness: a result above the minimum whose scaled width was odd and was
\* rounded up, while the height was clamped to the minimum.
C3_Witness ==
    /\ Len(ret) = 1 /\ call.fn = "compute_size"
    /\ LET m == max_extent(call.events, call.preset, Font)
           p == call.preset
           w == scaled(m[1] + p.padding[4] + p.padding[2] + extra_allowance(p),
                       call.safety_scale)
           h == scaled(m[2] + p.padding[1] + p.padding[3] + extra_allowance(p),
                       call.safety_scale)
       IN  /\ w > 64 /\ w % 2 = 1 /\ ret[1].width = w + 1
           /\ h < 64 /\ ret[1].height = 64

(***************************************************************************)
(* word_reveal on one event: AnimationRegistry.create, then apply_to_event.*)
(***************************************************************************)
KaraokeAlphabet == {"a", ".", " ", "\n"}
KaraokeModes == {"even", "Weighted ", "bogus"}
KaraokeDurations == {0, 1, 7, 2000}
KaraokeLeadIns == {0, 5}
KaraokeMinMax == {<<60, 400>>, <<0, 0>>, <<0, 1>>}

\* event texts with the marker \N, next to all the short texts over the alphabet
KaraokeMarkerTexts ==
    { <<"a", "\\", "N", "a">>,
      <<"a", "\\", "N">>,
      <<"\\", "N", "\\", "N", "a">>,
      <<"a", "\n", "\\", "N", "a">>,
      <<"a", "\\", " ", "N">>,
      <<"\\", "N">> }

InitKaraoke ==
    /\ PipelineIdle
    /\ \E text \in SeqsUpTo(KaraokeAlphabet, MaxKaraokeLen) \cup KaraokeMarkerTexts,
          mode \in KaraokeModes, dur \in KaraokeDurations,
          lead_in \in KaraokeLeadIns, mm \in KaraokeMinMax :
           call = [fn |-> "word_reveal",
                   params |-> [mode |-> mode, lead_in_ms |-> lead_in,
                               min_word_ms |-> mm[1], max_word_ms |-> mm[2]],
                   event |-> [start |-> 0, end |-> dur, text |-> text]]
    /\ ret = <<>>

\* animation = AnimationRegistry.create("word_reveal", params)
CreateWordReveal ==
    /\ call.fn = "word_reveal" /\ Len(ret) = 0
    /\ ret' = <<registry_create("word_reveal", call.params)>>
    /\ UNCHANGED <<call, pipeline_vars>>

\* animation.apply_to_event(event), on the instance that was created
ApplyWordReveal ==
    /\ call.fn = "word_reveal" /\ Len(ret) = 1 /\ ret[1].raised = None
    /\ ret' = Append(ret, build_karaoke_text(call.params, call.event.text,
                                             call.event.end - call.event.start))
    /\ UNCHANGED <<call, pipeline_vars>>

NextKaraoke == CreateWordReveal \/ ApplyWordReveal

SpecKaraoke == InitKaraoke /\ [][NextKaraoke]_vars

(***************************************************************************)
(* Claims about word_reveal.                                               *)
(***************************************************************************)
Abs(n) == IF n < 0 THEN 0 - n ELSE n

\* reveal timing was allocated for the event of this call
TimingApplied == Len(ret) = 2 /\ call.fn = "word_reveal" /\ ret[2].applied

WordIndices(tokens) == {i \in 1..Len(tokens) : is_word_token(tokens[i])}

\* C4 as stated (karaoke budget conservation for every min_word_ms <=
\* max_word_ms): whenever timing is allocated, the per-token times sum to
\* available_ms up to 1 ms per token.
C4_BudgetConservedAnyMax ==
    TimingApplied =>
        Abs(SeqSum(ret[2].token_ms) - ret[2].available_ms) <= Len(ret[2].tokens)

\* C4 as amended: the same with max_word_ms >= 1 (with max_word_ms <= 0 the
\* clamped total is not positive and nothing is renormalized); and for
\* duration 2000, lead-in 0, two one-word tokens, mode even, min 60, max 400
\* the allocation is [1000, 1000].
C4_BudgetConserved ==
    TimingApplied =>
        /\ call.params.max_word_ms >= 1 =>
               Abs(SeqSum(ret[2].token_ms) - ret[2].available_ms) <= Len(ret[2].tokens)
        /\ ( /\ call.event.end - call.event.start = 2000
             /\ call.params.lead_in_ms = 0
             /\ call.params.mode = "even"
             /\ call.params.min_word_ms = 60 /\ call.params.max_word_ms = 400
             /\ Len(ret[2].tokens) = 2
             /\ WordIndices(ret[2].tokens) = {1, 2} )
           => ret[2].token_ms = <<1000, 1000>>

\* C4 witness: the scenario of the claim: two words share 2000 ms; each was
\* clamped to 400 and renormalized to 1000.
C4_Witness ==
    /\ TimingApplied
    /\ call.params.max_word_ms = 400 /\ call.params.mode = "even"
    /\ ret[2].available_ms = 2000
    /\ Len(ret[2].tokens) = 2 /\ WordIndices(ret[2].tokens) = {1, 2}
    /\ ret[2].token_ms = <<1000, 1000>>

\* C7 (invalid mode rejected at construction): creating a word_reveal
\* animation whose mode is neither 'even' nor 'weighted' fails, so no
\* instance exists on which apply_to_event could run.
C7_InvalidModeRejectedAtConstruction ==
    (Len(ret) >= 1 /\ call.fn = "word_reveal"
     /\ normalize_mode(call.params.mode) \notin {"even", "weighted"})
        => ret[1].raised # None

\* C8 (word times within bounds): in the timing word_reveal allocates, every
\* word token's time is at least min_word_ms and at most max_word_ms.
C8_WordTimeWithinMinMax ==
    TimingApplied =>
        \A i \in WordIndices(ret[2].tokens) :
            /\ ret[2].token_ms[i] >= call.params.min_word_ms
            /\ ret[2].token_ms[i] <= call.params.max_word_ms

(***************************************************************************)
(* Claims about render_subtitle, checked under Spec.                       *)
(***************************************************************************)
\* the stage has run (and did what it is there for) in this run
Done(stage) == \E i \in 1..Len(trace) : trace[i] = stage

\* the number of lines of an event text, separated by the marker \N
ass_line_count(text) == Len(str_split(ass_newlines_to_real(text), "\n"))

\* the animation types whose override is one fragment in front of the text
OVERRIDE_TYPES == {"fade", "slide_up", "scale_settle", "blur_settle"}

\* C1: once the markup file is saved, the height compute_size returned is
\* at least k*(ascent+descent) + (k-1)*line_spacing + pad_top + pad_bottom
\* for every event whose saved text has k lines separated by \N.
C1_CanvasTallEnoughForLines ==
    Done("save") =>
        \A i \in 1..Len(ass_file.texts) :
            LET k == ass_line_count(ass_file.texts[i])
                m == getmetrics(Font)
            IN  size.height >= k * (m[1] + m[2]) + (k - 1) * preset.line_spacing
                               + preset.padding[1] + preset.padding[3]

\* C2: when compute_size runs after a fade, slide_up, scale_settle or
\* blur_settle animation was applied, the text it wraps and measures for each
\* event is the visible caption text the event had before the animation.
C2_MeasuresVisibleTextOnly ==
    (Done("animate") /\ Done("size") /\ preset.animation[1].type \in OVERRIDE_TYPES) =>
        \A i \in 1..Len(measured) : measured[i] = visible_text(pre_anim[i])

C6_PaddingFailureBeforeModification ==
    error = "padding" => events = loaded

(***************************************************************************)
(* Two calls of compute_size on the same events, as in                     *)
(* tests/test_core/test_sizing.py: calc1 = SizeCalculator(preset, s1),     *)
(* calc2 = SizeCalculator(preset2, s2).  Either the safety scale or one    *)
(* padding entry differs between the two calculators.                      *)
(***************************************************************************)
SizePairTexts == SizeTexts \cup { <<"W", "W", "W", "W">> }

SizePairPaddings ==
    { <<0, 0, 0, 0>>, <<2, 3, 4, 5>>, <<10, 10, 10, 10>>, <<0 - 40, 0 - 40, 0 - 40, 0 - 40>> }

SizePairScales == {0 - 100, 0, 50, 100, 112, 113}

SizePairDeltas == {1, 2}

InitSizePair ==
    /\ PipelineIdle
    /\ \E texts \in SeqsUpTo(SizePairTexts, MaxEvents),
          padding \in SizePairPaddings,
          outline4 \in {5, 16},
          s1 \in SizePairScales, s2 \in SizePairScales,
          k \in 0..4, d \in SizePairDeltas :
           /\ \/ k = 0 /\ d = 1 /\ s1 < s2
              \/ k > 0 /\ s1 = s2
           /\ LET p == [max_width_px |-> 0, line_spacing |-> 8, padding |-> padding,
                        outline4 |-> outline4, shadow4 |-> 8]
              IN  call = [fn |-> "compute_size_pair",
                          events |-> [i \in 1..Len(texts) |-> [text |-> texts[i]]],
                          preset |-> p, safety_scale |-> s1,
                          preset2 |-> IF k = 0 THEN p
                                      ELSE [p EXCEPT !.padding[k] = @ + d],
                          safety_scale2 |-> s2]
    /\ ret = <<>>

\* size1 = calc1.compute_size(subs)
CallFirstSize ==
    /\ call.fn = "compute_size_pair" /\ Len(ret) = 0
    /\ ret' = <<compute_size(call.events, call.preset, call.safety_scale, Font)>>
    /\ UNCHANGED <<call, pipeline_vars>>

\* size2 = calc2.compute_size(subs)
CallSecondSize ==
    /\ call.fn = "compute_size_pair" /\ Len(ret) = 1
    /\ ret' = Append(ret, compute_size(call.events, call.preset2, call.safety_scale2, Font))
    /\ UNCHANGED <<call, pipeline_vars>>

NextSizePair == CallFirstSize \/ CallSecondSize

SpecSizePair == InitSizePair /\ [][NextSizePair]_vars

\* both calls have returned
BothSized == call.fn = "compute_size_pair" /\ Len(ret) = 2

\* the two calculators differ in the safety scale only, s1 < s2
ScaleRaised ==
    /\ BothSized /\ call.preset2 = call.preset
    /\ call.safety_scale < call.safety_scale2

\* the two calculators differ in padding entry k only, which is larger by d
PaddingRaised(k, d) ==
    /\ BothSized /\ call.safety_scale2 = call.safety_scale
    /\ call.preset2 = [call.preset EXCEPT !.padding[k] = @ + d]

\* padding as the preset documents it: four non-negative entries
PaddingNonNegative == \A k \in 1..4 : call.preset.padding[k] >= 0

\* C11 as stated (for scales >= 1 and non-negative padding): when the first
\* result is above the 64-pixel minimum, the larger safety scale returns a
\* strictly larger width and height.
C11_StrictlyMonotoneInScale ==
    (/\ ScaleRaised /\ call.safety_scale >= 100 /\ PaddingNonNegative
     /\ ret[1].width > 64 /\ ret[1].height > 64) =>
        /\ ret[2].width > ret[1].width
        /\ ret[2].height > ret[1].height

\* C11 amended: for scales 0 <= s1 < s2 and non-negative padding, the larger
\* scale never returns a smaller width or height (they may be equal).
C11_MonotoneInScale ==
    (ScaleRaised /\ call.safety_scale >= 0 /\ PaddingNonNegative) =>
        /\ ret[2].width >= ret[1].width
        /\ ret[2].height >= ret[1].height

\* two scales 1.12 < 1.13 whose results are above the minimum, the width
\* equal and the height larger
C11_Witness ==
    /\ ScaleRaised /\ call.safety_scale = 112 /\ call.safety_scale2 = 113
    /\ PaddingNonNegative
    /\ ret[1].width > 64 /\ ret[1].height > 64
    /\ ret[2].width = ret[1].width /\ ret[2].height > ret[1].height

\* the dimension padding entry k (top, right, bottom, left) belongs to
PadDimension(r, k) == IF k \in {2, 4} THEN r.width ELSE r.height
OtherDimension(r, k) == IF k \in {2, 4} THEN r.height ELSE r.width

\* C12 as stated (for a scale >= 1, non-negative padding and a result above
\* the 64-pixel minimum): increasing one padding value by any positive
\* amount strictly increases the corresponding dimension.
C12_StrictlyMonotoneInPadding ==
    \A k \in 1..4, d \in SizePairDeltas :
        (/\ PaddingRaised(k, d) /\ call.safety_scale >= 100 /\ PaddingNonNegative
         /\ PadDimension(ret[1], k) > 64) =>
            PadDimension(ret[2], k) > PadDimension(ret[1], k)

\* C12 amended: for a safety scale >= 0, increasing one padding value never
\* decreases the corresponding dimension and leaves the other dimension as
\* it was; for a safety scale >= 1 and an increase of at least 2 the
\* corresponding dimension is strictly larger whenever it is above 64.
C12_MonotoneInPadding ==
    \A k \in 1..4, d \in SizePairDeltas :
        (PaddingRaised(k, d) /\ call.safety_scale >= 0) =>
            /\ PadDimension(ret[2], k) >= PadDimension(ret[1], k)
            /\ OtherDimension(ret[2], k) = OtherDimension(ret[1], k)
            /\ (call.safety_scale >= 100 /\ d >= 2 /\ PadDimension(ret[2], k) > 64) =>
                   PadDimension(ret[2], k) > PadDimension(ret[1], k)

\* one more pixel of padding at a scale >= 1, the result above the minimum
\* and unchanged
C12_Witness ==
    \E k \in 1..4 :
        /\ PaddingRaised(k, 1) /\ call.safety_scale >= 100
        /\ PadDimension(ret[1], k) > 64
        /\ PadDimension(ret[2], k) = PadDimension(ret[1], k)

\* the largest element of a finite set of naturals, 0 for the empty set
SetMax(S) == IF S = {} THEN 0 ELSE CHOOSE x \in S : \A y \in S : y <= x

\* n rounded up to an even number
even_up(n) == 2 * CeilDiv(n, 2)

SlideInMs == {0 - 5, 140, 5000}
SlideOutMs == {120, 3000}
SlideMovePx == {0 - 10, 0, 26}
SlideCoordinates == {0 - 3, 0, 32, 540}

InitSlide ==
    /\ PipelineIdle
    /\ \E in_ms \in SlideInMs, out_ms \in SlideOutMs, move_px \in SlideMovePx,
          x \in SlideCoordinates, y \in SlideCoordinates :
           call = [fn |-> "slide_up",
                   params |-> [in_ms |-> in_ms, out_ms |-> out_ms, move_px |-> move_px],
                   position |-> <<x, y>>]
    /\ ret = <<>>

\* fragment = animation.generate_ass_override()
CallGenerateOverride ==
    /\ call.fn = "slide_up" /\ Len(ret) = 0
    /\ ret' = <<generate_ass_override("slide_up", call.params)>>
    /\ UNCHANGED <<call, pipeline_vars>>

\* animation.substitute_placeholders(fragment, position)
CallSubstitute ==
    /\ call.fn = "slide_up" /\ Len(ret) = 1
    /\ ret' = Append(ret, substitute_placeholders("slide_up", call.params, ret[1],
                                                  call.position))
    /\ UNCHANGED <<call, pipeline_vars>>

NextSlide == CallGenerateOverride \/ CallSubstitute

SpecSlide == InitSlide /\ [][NextSlide]_vars

\* the text holds the token {name}
HasPlaceholder(text, name) ==
    \E i \in 1..(Len(text) - 2) :
        text[i] = "{" /\ text[i + 1] = name /\ text[i + 2] = "}"

\* C13: after substitute_placeholders the slide_up fragment holds no {X},
\* {Y} or {Y_PLUS_DY}; it is \fad(in,out)\move(x,y+move_px,x,y,0,in).
C13_PlaceholdersResolved ==
    (call.fn = "slide_up" /\ Len(ret) = 2) =>
        LET x == ToString(call.position[1])
            y == ToString(call.position[2])
            y_plus_dy == ToString(call.position[2] + call.params.move_px)
            in_ms == ToString(Max(0, Min(4000, call.params.in_ms)))
            out_ms == ToString(Max(0, Min(2000, call.params.out_ms)))
        IN  /\ \A name \in {"X", "Y", "Y_PLUS_DY"} : ~HasPlaceholder(ret[2], name)
            /\ \A i \in 1..Len(ret[2]) : ret[2][i] \notin {"{", "}"}
            /\ ret[2] = <<"\\fad(", in_ms, ",", out_ms, ")", "\\move(", x, ",", y_plus_dy,
                          ",", x, ",", y, ",0,", in_ms, ")">>

\* a fragment with all three placeholders was resolved with move_px = 26
C13_Witness ==
    /\ call.fn = "slide_up" /\ Len(ret) = 2 /\ call.params.move_px = 26
    /\ \A name \in {"X", "Y", "Y_PLUS_DY"} : HasPlaceholder(ret[1], name)
    /\ ret[2] # ret[1]

(***************************************************************************)
(* Direct calls of BaseAnimation._inject_override.                         *)
(***************************************************************************)
InjectAlphabet == {"{", "}", "a"}

InjectOverrides ==
    { <<>>, <<"\\fad(", "120", ",", "120", ")">>, <<"\\move(", "{", "X", "}", ")">> }

InitInject ==
    /\ PipelineIdle
    /\ \E text \in SeqsUpTo(InjectAlphabet, MaxTextLen), override \in InjectOverrides :
           call = [fn |-> "_inject_override", text |-> text, override |-> override]
    /\ ret = <<>>

\* new_text = BaseAnimation._inject_override(text, override)
CallInjectOverride ==
    /\ call.fn = "_inject_override" /\ Len(ret) = 0
    /\ ret' = <<inject_override(call.text, call.override)>>
    /\ UNCHANGED <<call, pipeline_vars>>

NextInject == CallInjectOverride

SpecInject == InitInject /\ [][NextInject]_vars

\* the ways to read text as '{' + head + '}' + rest: the positions of a '}'
\* in a text that starts with '{'
BlockEnds(text) ==
    IF text # <<>> /\ text[1] = "{" THEN {e \in 2..Len(text) : text[e] = "}"} ELSE {}

\* C14: for a non-empty fragment o, a text of the form '{' + head + '}' +
\* rest gives '{' + o + head + '}' + rest; any other text gives
\* '{' + o + '}' + text.
C14_OverrideInjected ==
    (call.fn = "_inject_override" /\ Len(ret) = 1 /\ call.override # <<>>) =>
        LET text == call.text
            o == call.override
        IN  /\ \A e \in BlockEnds(text) :
                   ret[1] = <<"{">> \o o \o SubSeq(text, 2, e - 1) \o <<"}">>
                            \o SubSeq(text, e + 1, Len(text))
            /\ BlockEnds(text) = {} => ret[1] = <<"{">> \o o \o <<"}">> \o text

\* a fragment was put into an existing block with content, followed by text
C14_Witness ==
    /\ call.fn = "_inject_override" /\ Len(ret) = 1 /\ call.override # <<>>
    /\ call.text = <<"{", "a", "}", "a">>
    /\ ret[1] = <<"{">> \o call.override \o <<"a", "}", "a">>

(***************************************************************************)
(* C15, checked under Spec.                                                *)
(***************************************************************************)
\* the text starts with the block opening {\an5\pos(x,y)
StartsWithPos(text, x, y) ==
    /\ Len(text) >= 6
    /\ SubSeq(text, 1, 6) = <<"{", "\\an5\\pos(", ToString(x), ",", ToString(y), ")">>

\* every \move( of the text runs from (x, y + dy) to (x, y)
MovesTo(text, x, y, dy) ==
    \A j \in 1..Len(text) :
        text[j] = "\\move(" =>
            /\ j + 7 <= Len(text)
            /\ SubSeq(text, j + 1, j + 7) =
                   <<ToString(x), ",", ToString(y + dy), ",", ToString(x), ",", ToString(y)>>

\* C15: compute_size is evaluated once in a run; its width and height are
\* the values written to PlayResX/PlayResY, the values the anchor position
\* is derived from and the values passed to the renderer; the anchor in
\* every event's \pos tag is the anchor put into the slide_up placeholders.
C15_OneCanvasSize ==
    /\ Cardinality({i \in 1..Len(trace) : trace[i] = "size"}) <= 1
    /\ Done("position") =>
           /\ position[1] = (preset.padding[4] + (size.width - preset.padding[2])) \div 2
           /\ position[2] = (preset.padding[1] + (size.height - preset.padding[3])) \div 2
           /\ \A i \in 1..Len(events) :
                  StartsWithPos(events[i].text, position[1], position[2])
    /\ Done("play_res") =>
           /\ info.PlayResX = ToString(size.width)
           /\ info.PlayResY = ToString(size.height)
    /\ Done("save") =>
           /\ ass_file.info.PlayResX = ToString(size.width)
           /\ ass_file.info.PlayResY = ToString(size.height)
           /\ \A i \in 1..Len(ass_file.texts) :
                  StartsWithPos(ass_file.texts[i], position[1], position[2])
    /\ Done("substitute") =>
           \A i \in 1..Len(ass_file.texts) :
               MovesTo(ass_file.texts[i], position[1], position[2],
                       preset.animation[1].params.move_px)
    /\ Done("render") =>
           /\ render_call.width = size.width
           /\ render_call.height = size.height

\* a slide_up run has been rendered: the file holds an event with the \pos
\* tag and a substituted \move
C15_Witness ==
    /\ Done("substitute") /\ Done("render")
    /\ \E i \in 1..Len(ass_file.texts) :
           \E j \in 1..Len(ass_file.texts[i]) : ass_file.texts[i][j] = "\\move("
    /\ position[1] # position[2]

(***************************************************************************)
(* Direct calls of normalize_whitespace.                                   *)
(***************************************************************************)
NormalizeAlphabet == {"a", " ", "\t", "\n", "\r"}

InitNormalize ==
    /\ PipelineIdle
    /\ \E text \in SeqsUpTo(NormalizeAlphabet, MaxTextLen) :
           call = [fn |-> "normalize_whitespace", text |-> text]
    /\ ret = <<>>

\* normalized = normalize_whitespace(text)
CallNormalize ==
    /\ call.fn = "normalize_whitespace" /\ Len(ret) = 0
    /\ ret' = <<normalize_whitespace(call.text)>>
    /\ UNCHANGED <<call, pipeline_vars>>

NextNormalize == CallNormalize

SpecNormalize == InitNormalize /\ [][NextNormalize]_vars

\* the number of line endings of a text: each \r\n, lone \r or \n once
line_endings(text) ==
    Cardinality({i \in 1..Len(text) :
                    \/ text[i] = "\n"
                    \/ text[i] = "\r" /\ ~(i < Len(text) /\ text[i + 1] = "\n")})

\* C16 as stated: the output of normalize_whitespace has as many line
\* breaks as the input has line endings, wherever they are.
C16_LineBreaksKept ==
    (call.fn = "normalize_whitespace" /\ Len(ret) = 1) =>
        line_endings(ret[1]) = line_endings(call.text)

\* C16 amended: the output has as many line breaks as the input has line
\* endings between its first and its last non-whitespace character; line
\* endings before the first or after the last one are removed.
C16_InnerLineBreaksKept ==
    (call.fn = "normalize_whitespace" /\ Len(ret) = 1) =>
        /\ line_endings(ret[1]) = line_endings(str_strip(call.text))
        /\ \A i \in 1..Len(ret[1]) : ret[1][i] # "\r"

\* an empty line between two words was kept and a trailing line ending removed
C16_Witness ==
    /\ call.fn = "normalize_whitespace" /\ Len(ret) = 1
    /\ call.text = <<"a", "\n", "\r", "a", "\n">>
    /\ ret[1] = <<"a", "\n", "\n", "a">>

(***************************************************************************)
(* C17, checked under SpecWrap.                                            *)
(***************************************************************************)
\* the non-empty elements of a sequence of words, in order
RECURSIVE NonEmpty(_)
NonEmpty(ws) ==
    IF ws = <<>> THEN <<>>
    ELSE IF Head(ws) = <<>> THEN NonEmpty(Tail(ws))
    ELSE <<Head(ws)>> \o NonEmpty(Tail(ws))

\* the space-separated words of the lines ls, read line after line
RECURSIVE WordsAcross(_)
WordsAcross(ls) ==
    IF ls = <<>> THEN <<>> ELSE NonEmpty(Words(Head(ls))) \o WordsAcross(Tail(ls))

\* the lines ls, each without its leading and trailing whitespace
StrippedLines(ls) == [i \in 1..Len(ls) |-> str_strip(ls[i])]

\* every word wider than the budget is the only word of its output line
WideWordsAlone ==
    \A line \in LineSet(ret[1]) :
        \A i \in 1..Len(Words(line)) :
            measure_single_line(Words(line)[i], Font) > call.max_width_px =>
                Len(Words(line)) = 1

marker_count(text) ==
    Cardinality({i \in 1..(Len(text) - 1) : text[i] = "\\" /\ text[i + 1] = "N"})

\* the number of raw newline characters in a text
newline_count(text) == Cardinality({i \in 1..Len(text) : text[i] = "\n"})

\* C18: when reveal timing is applied, the output holds no raw newline and
\* as many markers \N as the input has line breaks (raw newline or \N),
\* empty lines and a trailing line break included.
C18_NoRawNewline ==
    TimingApplied =>
        /\ newline_count(ret[2].text) = 0
        /\ marker_count(ret[2].text)
               = newline_count(call.event.text) + marker_count(call.event.text)

\* timing was applied to a text with a raw newline, a marker and an empty
\* line between them
C18_Witness ==
    /\ TimingApplied
    /\ call.event.text = <<"a", "\n", "\\", "N", "a">>
    /\ marker_count(ret[2].text) = 2

\* the event has no word token (once the markers \N are taken as line
\* breaks no character of its text is a word character), or no time is left
\* after the lead-in
Degenerate ==
    \/ LET text == str_replace(call.event.text, <<"\\", "N">>, <<"\n">>)
       IN  \A i \in 1..Len(text) : ~is_word_char(text[i])
    \/ Max(0, (call.event.end - call.event.start) - call.params.lead_in_ms) = 0

\* C19: when the event text has no word token or available_ms is 0,
\* apply_to_event returns normally and leaves the event text unchanged.
C19_DegenerateUnchanged ==
    (Len(ret) = 2 /\ call.fn = "word_reveal" /\ Degenerate) =>
        /\ ret[2].raised = None
        /\ ret[2].text = call.event.text

\* apply_to_event has run on a punctuation-only text with time available
\* and with a lead-in
C19_Witness ==
    /\ Len(ret) = 2 /\ call.fn = "word_reveal"
    /\ call.event.text = <<".", " ", ".">>
    /\ call.event.end - call.event.start = 2000 /\ call.params.lead_in_ms = 5
    /\ ret[2].text = call.event.text

(***************************************************************************)
(* Direct calls of measure_multiline.                                      *)
(***************************************************************************)
MeasureAlphabet == {"A", "B", "W", "\n"}
MeasureSpacings == {0 - 60, 0 - 5, 0, 5, 8}

InitMeasure ==
    /\ PipelineIdle
    /\ \E text \in SeqsUpTo(MeasureAlphabet, MaxTextLen), spacing \in MeasureSpacings :
           call = [fn |-> "measure_multiline", text |-> text, line_spacing_px |-> spacing]
    /\ ret = <<>>

\* w, h, n = measure_multiline(text, font, line_spacing_px)
CallMeasureMultiline ==
    /\ call.fn = "measure_multiline" /\ Len(ret) = 0
    /\ ret' = <<measure_multiline(call.text, Font, call.line_spacing_px)>>
    /\ UNCHANGED <<call, pipeline_vars>>

NextMeasure == CallMeasureMultiline

SpecMeasure == InitMeasure /\ [][NextMeasure]_vars

\* the lines of a text as pairs <<first, last>> of positions: the maximal
\* stretches without a line break (last = first - 1 for an empty line)
LineSpans(text) ==
    {<<i, j>> \in (1..(Len(text) + 1)) \X (0..Len(text)) :
        /\ j >= i - 1
        /\ \A k \in i..j : text[k] # "\n"
        /\ (i = 1 \/ text[i - 1] = "\n")
        /\ (j = Len(text) \/ text[j + 1] = "\n")}

\* C21: measure_multiline returns the number of lines (one for the empty
\* string), the largest line width, and line_count*(ascent+descent) +
\* max(0, line_count-1)*line_spacing_px, unclamped also for a negative
\* spacing; for ascent 40, descent 10, 'A\nB' and spacing 5: height 105,
\* 2 lines.
C21_MeasureMultiline ==
    (call.fn = "measure_multiline" /\ Len(ret) = 1) =>
        LET text == call.text
            n == newline_count(text) + 1
            spans == LineSpans(text)
        IN  /\ ret[1][3] = n /\ Cardinality(spans) = n
            /\ ret[1][1] = SetMax({CeilDiv(getlength2(Font, SubSeq(text, sp[1], sp[2])), 2)
                                      : sp \in spans})
            /\ ret[1][2] = n * (40 + 10)
                           + (IF n > 1 THEN n - 1 ELSE 0) * call.line_spacing_px
            /\ (text = <<"A", "\n", "B">> /\ call.line_spacing_px = 5) =>
                   (ret[1][2] = 105 /\ ret[1][3] = 2)

\* the scenario of C21 was measured
C21_Witness ==
    /\ call.fn = "measure_multiline" /\ Len(ret) = 1
    /\ call.text = <<"A", "\n", "B">> /\ call.line_spacing_px = 5
    /\ ret[1] = <<5, 105, 2>>

\* a negative spacing made three lines lower than three line heights
C21_WitnessNegative ==
    /\ call.fn = "measure_multiline" /\ Len(ret) = 1
    /\ call.line_spacing_px = 0 - 60 /\ ret[1][3] = 3 /\ ret[1][2] = 30

(***************************************************************************)
(* AnimationRegistry.get / create with their error messages.  The registry *)
(* is the set of registered type names; a message is the sequence of the   *)
(* pieces the f-string joins.                                              *)
(***************************************************************************)
MaxRegistryCalls == 2

\* sorted(cls._animations.keys()), for the names the package registers
list_types(animations) ==
    SelectSeq(<<"blur_settle", "fade", "scale_settle", "slide_up", "word_reveal">>,
              LAMBDA t : t \in animations)

\* ', '.join(names)
join_comma(names) ==
    IF names = <<>> THEN <<>>
    ELSE <<names[1]>> \o
         [i \in 1..(2 * (Len(names) - 1)) |->
             IF i % 2 = 1 THEN ", " ELSE names[(i \div 2) + 1]]

\* a faulty get: an unknown name is answered with the fade class
AnimationRegistry_get_lenient(animations, animation_type) ==
    [raised |-> None, message |-> <<>>,
     class |-> IF animation_type \in animations THEN <<animation_type>> ELSE <<"fade">>,
     animations |-> animations]

\* AnimationRegistry.get: the class (here its type name), or ValueError
AnimationRegistry_get(animations, animation_type) ==
    IF animation_type \notin animations
    THEN [raised |-> "ValueError",
          message |-> <<"Unknown animation type: '", animation_type,
                        "'. Available animations: ">>
                      \o join_comma(list_types(animations)),
          class |-> <<>>,
          animations |-> animations]
    ELSE [raised |-> None, message |-> <<>>, class |-> <<animation_type>>,
          animations |-> animations]

\* cls.__name__
class_name(atype) ==
    CASE atype = "fade" -> "FadeAnimation"
      [] atype = "slide_up" -> "SlideUpAnimation"
      [] atype = "scale_settle" -> "ScaleSettleAnimation"
      [] atype = "blur_settle" -> "BlurSettleAnimation"
      [] atype = "word_reveal" -> "WordRevealAnimation"

\* list(self.params.keys()), for a dict filled in the order in_ms, out_ms, move_px
params_keys(params) ==
    SelectSeq(<<"in_ms", "out_ms", "move_px">>, LAMBDA k : k \in DOMAIN params)

\* a faulty validate_params: the keys are tested last to first
validate_params_error_last_first(atype, params) ==
    LET req == required_params(atype)
        missing == {i \in 1..Len(req) : req[i] \notin DOMAIN params}
    IN  IF missing = {} THEN <<>>
        ELSE <<class_name(atype), " requires '",
               req[CHOOSE i \in missing : \A j \in missing : j <= i],
               "' parameter. Got: ">> \o params_keys(params)

\* the message of the ValueError validate_params raises: the loop stops at
\* the first key of `required` that is not in self.params
validate_params_error(atype, params) ==
    LET req == required_params(atype)
        missing == {i \in 1..Len(req) : req[i] \notin DOMAIN params}
    IN  IF missing = {} THEN <<>>
        ELSE <<class_name(atype), " requires '",
               req[CHOOSE i \in missing : \A j \in missing : i <= j],
               "' parameter. Got: ">> \o params_keys(params)

\* BaseAnimation.__init__ on the class get() returned
construct(got, params) ==
    IF validate_params(got.class[1], params) # None
    THEN [raised |-> "ValueError",
          message |-> validate_params_error(got.class[1], params),
          instance |-> <<>>, animations |-> got.animations]
    ELSE [raised |-> None, message |-> <<>>,
          instance |-> <<[type |-> got.class[1], keys |-> DOMAIN params]>>,
          animations |-> got.animations]

\* AnimationRegistry.create: cls.get(animation_type), then animation_class(params)
AnimationRegistry_create(animations, animation_type, params) ==
    LET got == AnimationRegistry_get(animations, animation_type)
    IN  IF got.raised # None
        THEN [raised |-> got.raised, message |-> got.message,
              instance |-> <<>>, animations |-> got.animations]
        ELSE construct(got, params)

RegistryNames == REGISTERED_TYPES \cup {"Fade", "slide", ""}
RegistryKeySets == SUBSET {"in_ms", "out_ms", "move_px"}

\* the registry once the animations package is imported
InitRegistry ==
    /\ PipelineIdle
    /\ call = [fn |-> "registry", animations |-> REGISTERED_TYPES]
    /\ ret = <<>>

\* AnimationRegistry.get(name)
CallRegistryGet ==
    /\ call.fn = "registry" /\ Len(ret) < MaxRegistryCalls
    /\ \E name \in RegistryNames :
         LET r == AnimationRegistry_get(call.animations, name)
         IN  /\ ret' = Append(ret, [op |-> "get", name |-> name, keys |-> {},
                                    before |-> call.animations,
                                    raised |-> r.raised, message |-> r.message,
                                    made |-> r.class])
             /\ call' = [call EXCEPT !.animations = r.animations]
    /\ UNCHANGED pipeline_vars

\* AnimationRegistry.create(name, params)
CallRegistryCreate ==
    /\ call.fn = "registry" /\ Len(ret) < MaxRegistryCalls
    /\ \E name \in RegistryNames, keys \in RegistryKeySets :
         LET r == AnimationRegistry_create(call.animations, name, [k \in keys |-> 100])
         IN  /\ ret' = Append(ret, [op |-> "create", name |-> name, keys |-> keys,
                                    before |-> call.animations,
                                    raised |-> r.raised, message |-> r.message,
                                    made |-> IF r.instance = <<>> THEN <<>>
                                             ELSE <<r.instance[1].type>>])
             /\ call' = [call EXCEPT !.animations = r.animations]
    /\ UNCHANGED pipeline_vars

NextRegistry == CallRegistryGet \/ CallRegistryCreate

SpecRegistry == InitRegistry /\ [][NextRegistry]_vars

FiveTypes == {"fade", "slide_up", "scale_settle", "blur_settle", "word_reveal"}

\* the pieces of a message
Pieces(message) == {message[i] : i \in 1..Len(message)}

\* C22: the recognized types are exactly fade, slide_up, scale_settle,
\* blur_settle and word_reveal; get or create with any other name fails with
\* an error that lists the valid types, makes no class or instance, and
\* leaves the registry as it was.
C22_UnknownTypeRejected ==
    call.fn = "registry" =>
        /\ call.animations = FiveTypes
        /\ \A i \in 1..Len(ret) :
              /\ ret[i].before = FiveTypes
              /\ ret[i].name \notin FiveTypes =>
                    /\ ret[i].raised = "ValueError"
                    /\ FiveTypes \subseteq Pieces(ret[i].message)
                    /\ ret[i].made = <<>>
              /\ (ret[i].name \in FiveTypes /\ ret[i].op = "get") =>
                    (ret[i].raised = None /\ ret[i].made = <<ret[i].name>>)

\* an unknown name was asked for with get and then with create
C22_Witness ==
    /\ call.fn = "registry" /\ Len(ret) = 2
    /\ ret[1].op = "get" /\ ret[1].name = "Fade" /\ ret[1].raised = "ValueError"
    /\ ret[2].op = "create" /\ ret[2].name = "slide" /\ ret[2].raised = "ValueError"
    /\ ret[2].keys = {"in_ms", "out_ms", "move_px"}
    /\ call.animations = FiveTypes

\* the first key of the required list that a key set lacks ("" when none)
FirstLacking(name, keys) ==
    IF name = "word_reveal" THEN ""
    ELSE IF "in_ms" \notin keys THEN "in_ms"
    ELSE IF "out_ms" \notin keys THEN "out_ms"
    ELSE IF name = "slide_up" /\ "move_px" \notin keys THEN "move_px"
    ELSE ""

MaxBatchFiles == 3

BatchFiles == [exists : BOOLEAN, suffix : {".srt", ".ASS", ".txt"}, renders : BOOLEAN]
BatchOutputDirs == {"none", "creatable", "uncreatable"}

\* str.lower() of the suffixes drawn
suffix_lower(suffix) == IF suffix = ".ASS" THEN ".ass" ELSE suffix

\* main 285-294: the exit code from the counts process_batch returned
batch_exit_code(success_count, failure_count) ==
    IF failure_count > 0 /\ success_count = 0 THEN 1
    ELSE IF failure_count > 0 THEN 3
    ELSE 0

\* the two `continue` branches: count the failure, note the file, go on
batch_skip(st, reason) ==
    [st EXCEPT !.failure_count = @ + 1,
               !.failed_files = Append(@, <<st.idx, reason>>),
               !.idx = @ + 1]

\* a faulty try block: the first file that fails to render ends the loop
batch_try_render_stops(st, file, total) ==
    IF file.renders
    THEN [st EXCEPT !.rendered = Append(@, st.idx),
                    !.success_count = @ + 1,
                    !.idx = @ + 1]
    ELSE [st EXCEPT !.rendered = Append(@, st.idx),
                    !.failure_count = @ + 1,
                    !.failed_files = Append(@, <<st.idx, "render">>),
                    !.idx = total + 1]

\* the try block: render_subtitle, then SUCCESS, or the except branch
batch_try_render(st, file, total) ==
    IF file.renders
    THEN [st EXCEPT !.rendered = Append(@, st.idx),
                    !.success_count = @ + 1,
                    !.idx = @ + 1]
    ELSE [st EXCEPT !.rendered = Append(@, st.idx),
                    !.failure_count = @ + 1,
                    !.failed_files = Append(@, <<st.idx, "render">>),
                    !.idx = @ + 1]

InitBatch ==
    /\ PipelineIdle
    /\ \E files \in SeqsUpTo(BatchFiles, MaxBatchFiles), dir \in BatchOutputDirs :
           call = [fn |-> "batch", input_files |-> files, batch_output_dir |-> dir]
    /\ ret = <<>>

\* main: `if not input_files: return 2`
MainNoInputFiles ==
    /\ call.fn = "batch" /\ ret = <<>> /\ call.input_files = <<>>
    /\ ret' = <<[phase |-> "exit", idx |-> 1, success_count |-> 0, failure_count |-> 0,
                 failed_files |-> <<>>, rendered |-> <<>>, exit_code |-> 2]>>
    /\ UNCHANGED <<call, pipeline_vars>>

\* main calls process_batch; its counters are initialised
EnterProcessBatch ==
    /\ call.fn = "batch" /\ ret = <<>> /\ call.input_files # <<>>
    /\ ret' = <<[phase |-> "loop", idx |-> 1, success_count |-> 0, failure_count |-> 0,
                 failed_files |-> <<>>, rendered |-> <<>>, exit_code |-> 0 - 1]>>
    /\ UNCHANGED <<call, pipeline_vars>>

InLoop == call.fn = "batch" /\ Len(ret) = 1 /\ ret[1].phase = "loop"
           /\ ret[1].idx <= Len(call.input_files)

\* `if not input_path.exists()`
BatchSkipMissing ==
    /\ InLoop
    /\ ~call.input_files[ret[1].idx].exists
    /\ ret' = <<batch_skip(ret[1], "File not found")>>
    /\ UNCHANGED <<call, pipeline_vars>>

\* `if input_path.suffix.lower() not in ('.srt', '.ass')`
BatchSkipInvalid ==
    /\ InLoop
    /\ call.input_files[ret[1].idx].exists
    /\ suffix_lower(call.input_files[ret[1].idx].suffix) \notin {".srt", ".ass"}
    /\ ret' = <<batch_skip(ret[1], "Invalid file type")>>
    /\ UNCHANGED <<call, pipeline_vars>>

Renderable(file) == file.exists /\ suffix_lower(file.suffix) \in {".srt", ".ass"}

\* output_dir.mkdir raises outside the try block: process_batch is left by
\* the exception, and main's `except Exception` returns 1
BatchMkdirRaises ==
    /\ InLoop
    /\ Renderable(call.input_files[ret[1].idx])
    /\ call.batch_output_dir = "uncreatable"
    /\ ret' = <<[ret[1] EXCEPT !.phase = "exit", !.exit_code = 1]>>
    /\ UNCHANGED <<call, pipeline_vars>>

\* the output path is determined and the file is rendered inside try/except
BatchRender ==
    /\ InLoop
    /\ Renderable(call.input_files[ret[1].idx])
    /\ call.batch_output_dir # "uncreatable"
    /\ ret' = <<batch_try_render(ret[1], call.input_files[ret[1].idx],
                                 Len(call.input_files))>>
    /\ UNCHANGED <<call, pipeline_vars>>

\* the loop is over: the summary is printed, the tuple returned, and main
\* turns the counts into the exit code
BatchReturn ==
    /\ call.fn = "batch" /\ Len(ret) = 1 /\ ret[1].phase = "loop"
    /\ ret[1].idx > Len(call.input_files)
    /\ ret' = <<[ret[1] EXCEPT !.phase = "returned",
                               !.exit_code = batch_exit_code(ret[1].success_count,
                                                             ret[1].failure_count)]>>
    /\ UNCHANGED <<call, pipeline_vars>>

NextBatch ==
    \/ MainNoInputFiles
    \/ EnterProcessBatch
    \/ BatchSkipMissing
    \/ BatchSkipInvalid
    \/ BatchMkdirRaises
    \/ BatchRender
    \/ BatchReturn

SpecBatch == InitBatch /\ [][NextBatch]_vars

\* the positions of the input files that cannot succeed
FailingFiles ==
    {i \in 1..Len(call.input_files) :
        \/ ~call.input_files[i].exists
        \/ call.input_files[i].suffix = ".txt"
        \/ ~call.input_files[i].renders}

\* the positions render_subtitle has to be called on
FilesToRender ==
    {i \in 1..Len(call.input_files) :
        call.input_files[i].exists /\ call.input_files[i].suffix # ".txt"}

BatchReturned == call.fn = "batch" /\ Len(ret) = 1 /\ ret[1].phase = "returned"

\* C24: a failure while rendering one file, or a missing or non-subtitle
\* file, keeps no later file from being processed; when process_batch
\* returns, success_count + failure_count is the number of input files,
\* failed_files has failure_count entries, and the exit code is 0 when no
\* file failed, 1 when all failed and 3 when only some failed.
C24_BatchIsolatesFailures ==
    /\ (call.fn = "batch" /\ Len(ret) = 1 /\ ret[1].phase = "loop") =>
          /\ ret[1].success_count + ret[1].failure_count = ret[1].idx - 1
          /\ Len(ret[1].failed_files) = ret[1].failure_count
    /\ BatchReturned =>
          /\ ret[1].success_count + ret[1].failure_count = Len(call.input_files)
          /\ Len(ret[1].failed_files) = ret[1].failure_count
          /\ {ret[1].rendered[k] : k \in 1..Len(ret[1].rendered)} = FilesToRender
          /\ {ret[1].failed_files[k][1] : k \in 1..Len(ret[1].failed_files)} = FailingFiles
          /\ ret[1].failure_count = Cardinality(FailingFiles)
          /\ ret[1].exit_code = (IF FailingFiles = {} THEN 0
                                 ELSE IF FailingFiles = 1..Len(call.input_files) THEN 1
                                 ELSE 3)

\* the first file failed to render, the second was missing, the third was
\* rendered: exit code 3
C24_Witness ==
    /\ BatchReturned
    /\ Len(call.input_files) = 3
    /\ ret[1].rendered = <<1, 3>>
    /\ ret[1].failed_files = <<<<1, "render">>, <<2, "File not found">>>>
    /\ ret[1].success_count = 1 /\ ret[1].failure_count = 2
    /\ ret[1].exit_code = 3

(***************************************************************************)
(* compute_size followed by compute_anchor_position, as main.py 90-92.     *)
(***************************************************************************)
AnchorPaddings == [1..4 -> {0, 7, 40}]
AnchorScales == {1, 50, 100, 112}

InitAnchor ==
    /\ PipelineIdle
    /\ \E texts \in SeqsUpTo(SizeTexts, MaxEvents),
          padding \in AnchorPaddings,
          outline4 \in {0, 16},
          scale \in AnchorScales :
           call = [fn |-> "anchor",
                   events |-> [i \in 1..Len(texts) |-> [text |-> texts[i]]],
                   preset |-> [max_width_px |-> 0, line_spacing |-> 8,
                               padding |-> padding,
                               outline4 |-> outline4, shadow4 |-> 8],
                   safety_scale |-> scale]
    /\ ret = <<>>

\* size = size_calc.compute_size(subtitle.subs)
CallAnchorSize ==
    /\ call.fn = "anchor" /\ Len(ret) = 0
    /\ ret' = <<compute_size(call.events, call.preset, call.safety_scale, Font)>>
    /\ UNCHANGED <<call, pipeline_vars>>

\* position = size_calc.compute_anchor_position(size)
CallAnchorPosition ==
    /\ call.fn = "anchor" /\ Len(ret) = 1 /\ ret[1].raised = None
    /\ ret' = Append(ret, compute_anchor_position(call.preset, ret[1]))
    /\ UNCHANGED <<call, pipeline_vars>>

NextAnchor == CallAnchorSize \/ CallAnchorPosition

SpecAnchor == InitAnchor /\ [][NextAnchor]_vars

Anchored == call.fn = "anchor" /\ Len(ret) = 2

\* the anchor is the floored centre of the padded area and lies inside it
AnchorInside ==
    LET pad == call.preset.padding
        x == ret[2][1]
        y == ret[2][2]
    IN  /\ x = (pad[4] + ret[1].width - pad[2]) \div 2
        /\ y = (pad[1] + ret[1].height - pad[3]) \div 2
        /\ pad[4] <= x /\ x <= ret[1].width - pad[2]
        /\ pad[1] <= y /\ y <= ret[1].height - pad[3]

\* C25: for every preset with non-negative padding, every safety_scale > 0
\* and the size compute_size returned, the anchor (x, y) has
\* pad_left <= x <= width - pad_right and pad_top <= y <= height - pad_bottom,
\* with x = floor((pad_left + width - pad_right) / 2) and
\* y = floor((pad_top + height - pad_bottom) / 2).
C25_AnchorInsidePaddedArea ==
    (Anchored /\ call.safety_scale > 0
              /\ \A k \in 1..4 : call.preset.padding[k] >= 0) => AnchorInside

\* what does hold: the same for every safety_scale >= 1
C25_AnchorInsideFromScaleOne ==
    (Anchored /\ call.safety_scale >= 100
              /\ \A k \in 1..4 : call.preset.padding[k] >= 0) => AnchorInside

\* the anchor of a padded canvas was computed at safety_scale 1.12
C25_Witness ==
    /\ Anchored /\ call.safety_scale = 112
    /\ call.preset.padding = <<7, 40, 0, 7>>
    /\ ret[2][1] < ret[1].width \div 2

(***************************************************************************)
(* Word reveal on event texts that carry braces: override blocks such as   *)
(* {\i1}, which pysubs2 makes of an SRT <i> tag, and single braces.        *)
(***************************************************************************)
MarkupAlphabet == {"a", "{", "}"}

MarkupTexts ==
    { <<"{", "\\", "i", "1", "}", "a">>,
      <<"a", " ", "{", "\\", "i", "1", "}", "a">>,
      <<"{", "\\", "i", "1", "}", "a", "{", "\\", "i", "0", "}", " ", "a">>,
      <<"a", "{", " ", "a">>,
      <<"a", ".", " ", "a">> }

InitMarkup ==
    /\ PipelineIdle
    /\ \E text \in SeqsUpTo(MarkupAlphabet, MaxKaraokeLen) \cup MarkupTexts,
          mode \in {"even", "weighted"}, dur \in {0, 2000}, lead_in \in KaraokeLeadIns :
           call = [fn |-> "word_reveal",
                   params |-> [mode |-> mode, lead_in_ms |-> lead_in,
                               min_word_ms |-> 60, max_word_ms |-> 400],
                   event |-> [start |-> 0, end |-> dur, text |-> text]]
    /\ ret = <<>>

SpecMarkup == InitMarkup /\ [][NextKaraoke]_vars

\* reveal timing was applied to the event
Revealed == call.fn = "word_reveal" /\ Len(ret) = 2 /\ ret[2].applied

\* the characters of a text that are not white space
NonSpace(text) == SelectSeq(text, LAMBDA c : ~is_space(c))

\* a text with its override blocks removed and \N read as a line break
Shown(text) == str_replace(strip_ass_tags(text), <<"\\", "N">>, <<"\n">>)

\* the stretches of a text between its override blocks
RECURSIVE Segments(_, _)
Segments(text, cur) ==
    IF text = <<>> THEN <<cur>>
    ELSE IF Head(text) = "{" /\ str_find(text, "}") # 0
         THEN <<cur>> \o Segments(SubSeq(text, str_find(text, "}") + 1, Len(text)), <<>>)
         ELSE Segments(Tail(text), Append(cur, Head(text)))

\* the tokens a list of lines shows: each line without its white space, a
\* line break between two lines
RECURSIVE LineTokens(_)
LineTokens(lines) ==
    LET first == IF NonSpace(Head(lines)) = <<>> THEN <<>> ELSE <<NonSpace(Head(lines))>>
    IN  IF Len(lines) = 1 THEN first
        ELSE first \o << <<"\n">> >> \o LineTokens(Tail(lines))

\* the tokens of an output text: what stands between its override blocks
RECURSIVE SegmentTokens(_)
SegmentTokens(segs) ==
    IF segs = <<>> THEN <<>>
    ELSE LineTokens(str_split(str_replace(Head(segs), <<"\\", "N">>, <<"\n">>), "\n"))
         \o SegmentTokens(Tail(segs))

\* the output shows the characters and the tokens of the given input
ShowsTokensOf(output, input) ==
    /\ NonSpace(Shown(output)) = NonSpace(input)
    /\ SegmentTokens(Segments(output, <<>>)) = tokenize_with_newlines(input)

\* C26: for every event to which reveal timing is applied, the output without
\* its override blocks and with \N read as a line break has the non-space
\* characters of the input text, in the same tokens in the same order:
\* nothing is dropped, duplicated or reordered.  (The input is taken as
\* written, or with its own override blocks removed: either reading.)
C26_CharactersKept ==
    Revealed =>
        \/ ShowsTokensOf(ret[2].text,
                         str_replace(call.event.text, <<"\\", "N">>, <<"\n">>))
        \/ ShowsTokensOf(ret[2].text, Shown(call.event.text))

\* the same for the texts without braces
C26_CharactersKeptWithoutBraces ==
    (Revealed /\ \A i \in 1..Len(call.event.text) : call.event.text[i] \notin {"{", "}"}) =>
        ShowsTokensOf(ret[2].text, str_replace(call.event.text, <<"\\", "N">>, <<"\n">>))

\* the override blocks of a text: from a { to the first } after it
BlocksOf(text) ==
    {SubSeq(text, i, j) : <<i, j>> \in
        {p \in (1..Len(text)) \X (1..Len(text)) :
            /\ p[1] < p[2] /\ text[p[1]] = "{" /\ text[p[2]] = "}"
            /\ \A k \in p[1]..(p[2] - 1) : text[k] # "}"
            /\ \A k \in 1..(p[1] - 1) :
                  text[k] = "{" => \E m \in (k + 1)..(p[1] - 1) : text[m] = "}"}}

\* sub occurs in text as it stands
Occurs(sub, text) ==
    \E k \in 1..(Len(text) - Len(sub) + 1) : SubSeq(text, k, k + Len(sub) - 1) = sub

\* C28: an override block {...} already in an event's text is intact in the
\* output of apply_to_event: no timing tag and no space inside it.
C28_BlocksIntact ==
    (call.fn = "word_reveal" /\ Len(ret) = 2) =>
        \A block \in BlocksOf(call.event.text) : Occurs(block, ret[2].text)

(***************************************************************************)
(* C27, checked under SpecWrap.                                            *)
(***************************************************************************)
\* C27: with max_width_px <= 0, wrap_text_to_width returns exactly
\* normalize_whitespace(text): the line breaks and the words of each line
\* are those of the normalized text, none added, removed or moved.
C27_WrappingDisabled ==
    (call.fn = "wrap_text_to_width" /\ Len(ret) >= 1 /\ call.max_width_px <= 0) =>
        /\ ret[1] = normalize_whitespace(call.text)
        /\ newline_count(ret[1]) = newline_count(normalize_whitespace(call.text))
        /\ newline_count(ret[1]) <= newline_count(call.text)
        /\ \A i \in 1..Len(Lines(ret[1])) :
              Words(Lines(ret[1])[i]) = Words(Lines(normalize_whitespace(call.text))[i])

\* two words that no positive width of the harness keeps on one line came
\* back on one line at width 0
C27_Witness ==
    /\ call.fn = "wrap_text_to_width" /\ Len(ret) >= 1 /\ call.max_width_px = 0
    /\ call.text = <<"W", " ", " ", "W">>
    /\ ret[1] = <<"W", " ", "W">>

(***************************************************************************)
(* presets/defaults.py, presets/loader.py, core/config.py                  *)
(* Presets as objects.  A heap H has five stores, each a sequence whose    *)
(* index is the object's identity:                                         *)
(*   lists   padding lists                                                 *)
(*   dicts   animation dictionaries (key -> token; a numeral token stands  *)
(*           for the number)                                               *)
(*   pdicts  preset dictionaries [font_size, padding, animation], the      *)
(*           last two holding identities in lists and dicts                *)
(*   anims   AnimationConfig objects [type, params]                        *)
(*   configs PresetConfig objects [font_size, padding, animation]          *)
(* An optional animation is <<>> or <<identity>>.  Operations that make    *)
(* objects return the new heap and the identity made.                      *)
(***************************************************************************)
\* the module-level BUILTIN_PRESETS, and the dictionary of a preset file
\* without an animation as _load_file returns it (pdicts[3])
BuiltinHeap ==
    [lists |-> << <<40, 60, 50, 60>>, <<44, 70, 56, 70>>, <<1, 2, 3, 4>> >>,
     dicts |-> << [type |-> "fade", in_ms |-> "120", out_ms |-> "120"],
                  [type |-> "slide_up", in_ms |-> "140", out_ms |-> "120",
                   move_px |-> "26"] >>,
     pdicts |-> << [font_size |-> 64, padding |-> 1, animation |-> <<1>>],
                   [font_size |-> 62, padding |-> 2, animation |-> <<2>>],
                   [font_size |-> 48, padding |-> 3, animation |-> <<>>] >>,
     anims |-> <<>>,
     configs |-> <<>>]

BUILTIN_PRESETS == [clean_outline |-> 1, modern_box |-> 2]

\* get_builtin_preset: dict(BUILTIN_PRESETS[name]), a new dictionary holding
\* the same padding list and the same animation dictionary
get_builtin_preset(H, name) ==
    [heap |-> [H EXCEPT !.pdicts = Append(@, H.pdicts[BUILTIN_PRESETS[name]])],
     ref |-> Len(H.pdicts) + 1]

\* AnimationConfig.from_dict: type, and every other key in a new params dict
AnimationConfig_from_dict(H, d) ==
    [heap |-> [H EXCEPT !.dicts = Append(@, [k \in DOMAIN H.dicts[d] \ {"type"}
                                               |-> H.dicts[d][k]]),
                        !.anims = Append(@, [type |-> H.dicts[d]["type"],
                                             params |-> Len(H.dicts) + 1])],
     ref |-> Len(H.anims) + 1]

\* cls(animation=animation, **config_data): the values of data are passed on
\* as they are, so the padding list is the one data holds
new_config(H, data, animation) ==
    [heap |-> [H EXCEPT !.configs = Append(@, [font_size |-> data.font_size,
                                               padding |-> data.padding,
                                               animation |-> animation])],
     ref |-> Len(H.configs) + 1]

\* cls(...) once the animation was made
new_config_with(made, data) == new_config(made.heap, data, <<made.ref>>)

\* PresetConfig.from_dict
PresetConfig_from_dict(H, pd) ==
    IF H.pdicts[pd].animation = <<>>
    THEN new_config(H, H.pdicts[pd], <<>>)
    ELSE new_config_with(AnimationConfig_from_dict(H, H.pdicts[pd].animation[1]),
                         H.pdicts[pd])

\* AnimationConfig.to_dict: {"type": self.type}, then update(self.params)
AnimationConfig_to_dict(H, a) ==
    [heap |-> [H EXCEPT !.dicts = Append(@,
                  [k \in {"type"} \cup DOMAIN H.dicts[H.anims[a].params] |->
                      IF k \in DOMAIN H.dicts[H.anims[a].params]
                      THEN H.dicts[H.anims[a].params][k]
                      ELSE H.anims[a].type])],
     ref |-> Len(H.dicts) + 1]

\* result = asdict(self) copies the padding list; result["animation"] is set
new_pdict(H, cfg, animation) ==
    [heap |-> [H EXCEPT !.lists = Append(@, H.lists[cfg.padding]),
                        !.pdicts = Append(@, [font_size |-> cfg.font_size,
                                              padding |-> Len(H.lists) + 1,
                                              animation |-> animation])],
     ref |-> Len(H.pdicts) + 1]

new_pdict_with(made, cfg) == new_pdict(made.heap, cfg, <<made.ref>>)

\* PresetConfig.to_dict
PresetConfig_to_dict(H, c) ==
    IF H.configs[c].animation = <<>>
    THEN new_pdict(H, H.configs[c], <<>>)
    ELSE new_pdict_with(AnimationConfig_to_dict(H, H.configs[c].animation[1]),
                        H.configs[c])

from_dict_of(made) == PresetConfig_from_dict(made.heap, made.ref)

\* a faulty copy: the same object under a second name
copy_preset_alias(H, c) == [heap |-> H, ref |-> c]

\* PresetConfig.from_dict(x.to_dict())
copy_preset(H, c) == from_dict_of(PresetConfig_to_dict(H, c))

\* PresetLoader.load of a built-in name
load_builtin(H, name) == from_dict_of(get_builtin_preset(H, name))

\* <Animation>.get_default_params
get_default_params(atype) ==
    CASE atype = "fade" -> [in_ms |-> "120", out_ms |-> "120"]
      [] atype = "slide_up" -> [in_ms |-> "140", out_ms |-> "120", move_px |-> "26"]
      [] atype = "scale_settle" ->
            [in_ms |-> "200", out_ms |-> "120", start_scale |-> "110",
             end_scale |-> "100", accel |-> "1.0"]
      [] atype = "blur_settle" ->
            [in_ms |-> "200", out_ms |-> "120", start_blur |-> "4",
             end_blur |-> "0", accel |-> "1.0"]
      [] atype = "word_reveal" ->
            [mode |-> "even", lead_in_ms |-> "0", min_word_ms |-> "60",
             max_word_ms |-> "400", unrevealed_color |-> "None"]

\* what a PresetConfig holds, field by field, with the objects it refers to
config_value(H, c) ==
    [font_size |-> H.configs[c].font_size,
     padding |-> H.lists[H.configs[c].padding],
     animation |-> IF H.configs[c].animation = <<>> THEN <<>>
                   ELSE <<[type |-> H.anims[H.configs[c].animation[1]].type,
                           params |-> H.dicts[H.anims[H.configs[c].animation[1]].params]]>>]

\* what a preset dictionary holds
pdict_value(H, pd) ==
    [font_size |-> H.pdicts[pd].font_size,
     padding |-> H.lists[H.pdicts[pd].padding],
     animation |-> IF H.pdicts[pd].animation = <<>> THEN <<>>
                   ELSE <<H.dicts[H.pdicts[pd].animation[1]]>>]

(***************************************************************************)
(* cli/interactive.py: the commands that touch the preset.  ret[1] is the  *)
(* frame of interactive_mode: heap, preset, baseline_preset, the value of  *)
(* the preset as loaded, the number of commands read and the last one.     *)
(***************************************************************************)
MaxCommands == 4

\* d[key] = value on a dictionary
dict_set(d, key, value) ==
    [k \in DOMAIN d \cup {key} |-> IF k = key THEN value ELSE d[k]]

\* lines 31-33: the preset is loaded and the baseline made of it
start_interactive(made) ==
    [heap |-> copy_preset(made.heap, made.ref).heap,
     preset |-> made.ref,
     baseline_preset |-> copy_preset(made.heap, made.ref).ref,
     loaded |-> config_value(made.heap, made.ref),
     n |-> 0, last |-> "start"]

InitInteractive ==
    /\ PipelineIdle
    /\ \E pd \in 1..Len(BuiltinHeap.pdicts) :
           call = [fn |-> "interactive", preset |-> pd]
    /\ ret = <<>>

\* interactive_mode up to the first prompt; a built-in name is loaded with
\* get_builtin_preset, a file with from_dict of its dictionary
StartInteractive ==
    /\ call.fn = "interactive" /\ ret = <<>>
    /\ ret' = <<start_interactive(
                    IF call.preset = 1 THEN load_builtin(BuiltinHeap, "clean_outline")
                    ELSE IF call.preset = 2 THEN load_builtin(BuiltinHeap, "modern_box")
                    ELSE PresetConfig_from_dict(BuiltinHeap, call.preset))>>
    /\ UNCHANGED <<call, pipeline_vars>>

Prompt == call.fn = "interactive" /\ Len(ret) = 1 /\ ret[1].n < MaxCommands

Read(st, cmd) == [st EXCEPT !.n = @ + 1, !.last = cmd]

\* set <key> <value> with a top-level key: setattr if the preset has it
CmdSetTopLevel ==
    /\ Prompt
    /\ \E key \in {"font_size", "bogus"}, value \in {72} :
         ret' = <<Read(IF key = "font_size"
                       THEN [ret[1] EXCEPT !.heap.configs[ret[1].preset].font_size = value]
                       ELSE ret[1], "set")>>
    /\ UNCHANGED <<call, pipeline_vars>>

\* preset.animation = AnimationConfig(type=value, params=defaults)
set_animation(st, value) ==
    [st EXCEPT !.heap.dicts = Append(@, get_default_params(value)),
               !.heap.anims = Append(@, [type |-> value,
                                         params |-> Len(st.heap.dicts) + 1]),
               !.heap.configs[st.preset].animation = <<Len(st.heap.anims) + 1>>]

\* set animation <type>
CmdSetAnimation ==
    /\ Prompt
    /\ \E value \in {"slide_up", "word_reveal", "nope"} :
         ret' = <<Read(IF value \in REGISTERED_TYPES
                       THEN set_animation(ret[1], value)
                       ELSE ret[1], "set")>>
    /\ UNCHANGED <<call, pipeline_vars>>

\* preset.animation.params[parts[1]] = value
set_animation_param(st, a, key, value) ==
    [st EXCEPT !.heap.dicts[st.heap.anims[a].params] = dict_set(@, key, value)]

\* set animation.<param> <value>
CmdSetAnimationParam ==
    /\ Prompt
    /\ \E kv \in {<<"in_ms", "200">>, <<"type", "fade">>} :
         ret' = <<Read(IF ret[1].heap.configs[ret[1].preset].animation # <<>>
                       THEN set_animation_param(ret[1],
                                ret[1].heap.configs[ret[1].preset].animation[1],
                                kv[1], kv[2])
                       ELSE ret[1], "set")>>
    /\ UNCHANGED <<call, pipeline_vars>>

\* r | render: render_subtitle reads the preset
CmdRender ==
    /\ Prompt
    /\ ret' = <<Read(ret[1], "render")>>
    /\ UNCHANGED <<call, pipeline_vars>>

\* preset = PresetConfig.from_dict(baseline_preset.to_dict())
reset_to(st, made) == [st EXCEPT !.heap = made.heap, !.preset = made.ref]

\* reset
CmdReset ==
    /\ Prompt
    /\ ret' = <<Read(reset_to(ret[1], copy_preset(ret[1].heap, ret[1].baseline_preset)),
                     "reset")>>
    /\ UNCHANGED <<call, pipeline_vars>>

NextInteractive ==
    \/ StartInteractive
    \/ CmdSetTopLevel
    \/ CmdSetAnimation
    \/ CmdSetAnimationParam
    \/ CmdRender
    \/ CmdReset

SpecInteractive == InitInteractive /\ [][NextInteractive]_vars

\* C29: after any sequence of set commands and renders, reset makes the
\* working preset equal, field by field with animation type and parameters,
\* to the preset loaded at start; no set command, before or after a reset,
\* changes the baseline, so every later reset restores the same preset.
C29_ResetRestoresInitial ==
    (call.fn = "interactive" /\ Len(ret) = 1) =>
        /\ config_value(ret[1].heap, ret[1].baseline_preset) = ret[1].loaded
        /\ ret[1].last = "reset" =>
              config_value(ret[1].heap, ret[1].preset) = ret[1].loaded

\* the working preset was changed and reset twice: font size, animation
\* type and an animation parameter were set in between
C29_Witness ==
    /\ call.fn = "interactive" /\ Len(ret) = 1
    /\ ret[1].n = 4 /\ ret[1].last = "reset"
    /\ Len(ret[1].heap.configs) = 4
    /\ \E c \in 1..Len(ret[1].heap.configs) :
          /\ config_value(ret[1].heap, c).animation # <<>>
          /\ "type" \in DOMAIN config_value(ret[1].heap, c).animation[1].params
    /\ config_value(ret[1].heap, ret[1].preset) = ret[1].loaded

(***************************************************************************)
(* A client of get_builtin_preset and PresetLoader.load that changes what  *)
(* it was given.  ret[1]: the heap, the dictionary d and the PresetConfig  *)
(* p the client holds (0: none yet), the number of steps, the last step.   *)
(***************************************************************************)
MaxBuiltinSteps == 4

BuiltinNames == {"clean_outline", "modern_box"}

InitBuiltin ==
    /\ PipelineIdle
    /\ call = [fn |-> "builtin"]
    /\ ret = << [heap |-> BuiltinHeap, d |-> 0, p |-> 0, n |-> 0,
                 last |-> [op |-> "import", name |-> "", value |-> <<>>]] >>

Stepping == call.fn = "builtin" /\ Len(ret) = 1 /\ ret[1].n < MaxBuiltinSteps

mutated(st, heap) ==
    [st EXCEPT !.heap = heap, !.n = @ + 1,
               !.last = [op |-> "mutate", name |-> "", value |-> <<>>]]

got_dict(st, name, made) ==
    [st EXCEPT !.heap = made.heap, !.d = made.ref, !.n = @ + 1,
               !.last = [op |-> "get", name |-> name,
                         value |-> pdict_value(made.heap, made.ref)]]

\* d = get_builtin_preset(name)
CallGetBuiltinPreset ==
    /\ Stepping
    /\ \E name \in BuiltinNames :
         ret' = <<got_dict(ret[1], name, get_builtin_preset(ret[1].heap, name))>>
    /\ UNCHANGED <<call, pipeline_vars>>

got_config(st, name, made) ==
    [st EXCEPT !.heap = made.heap, !.p = made.ref, !.n = @ + 1,
               !.last = [op |-> "load", name |-> name,
                         value |-> config_value(made.heap, made.ref)]]

\* p = PresetLoader().load(name)
CallLoad ==
    /\ Stepping
    /\ \E name \in BuiltinNames :
         ret' = <<got_config(ret[1], name, load_builtin(ret[1].heap, name))>>
    /\ UNCHANGED <<call, pipeline_vars>>

\* d["font_size"] = 1
MutateDictItem ==
    /\ Stepping /\ ret[1].d # 0
    /\ ret' = <<mutated(ret[1], [ret[1].heap EXCEPT !.pdicts[ret[1].d].font_size = 1])>>
    /\ UNCHANGED <<call, pipeline_vars>>

\* d["padding"][0] = 999
MutateDictPadding ==
    /\ Stepping /\ ret[1].d # 0
    /\ ret' = <<mutated(ret[1],
                  [ret[1].heap EXCEPT !.lists[ret[1].heap.pdicts[ret[1].d].padding][1] = 999])>>
    /\ UNCHANGED <<call, pipeline_vars>>

\* d["animation"]["in_ms"] = 7
MutateDictAnimation ==
    /\ Stepping /\ ret[1].d # 0
    /\ ret' = <<mutated(ret[1],
                  [ret[1].heap EXCEPT !.dicts[ret[1].heap.pdicts[ret[1].d].animation[1]] =
                                          dict_set(@, "in_ms", "7")])>>
    /\ UNCHANGED <<call, pipeline_vars>>

\* p.font_size = 1
MutateConfigField ==
    /\ Stepping /\ ret[1].p # 0
    /\ ret' = <<mutated(ret[1], [ret[1].heap EXCEPT !.configs[ret[1].p].font_size = 1])>>
    /\ UNCHANGED <<call, pipeline_vars>>

\* p.padding[1] = 555
MutateConfigPadding ==
    /\ Stepping /\ ret[1].p # 0
    /\ ret' = <<mutated(ret[1],
                  [ret[1].heap EXCEPT !.lists[ret[1].heap.configs[ret[1].p].padding][2] = 555])>>
    /\ UNCHANGED <<call, pipeline_vars>>

\* p.animation.params["in_ms"] = 1
MutateConfigParams ==
    /\ Stepping /\ ret[1].p # 0
    /\ ret' = <<mutated(ret[1],
                  [ret[1].heap EXCEPT
                      !.dicts[ret[1].heap.anims[ret[1].heap.configs[ret[1].p].animation[1]].params] =
                          dict_set(@, "in_ms", "1")])>>
    /\ UNCHANGED <<call, pipeline_vars>>

NextBuiltin ==
    \/ CallGetBuiltinPreset
    \/ CallLoad
    \/ MutateDictItem
    \/ MutateDictPadding
    \/ MutateDictAnimation
    \/ MutateConfigField
    \/ MutateConfigPadding
    \/ MutateConfigParams

SpecBuiltin == InitBuiltin /\ [][NextBuiltin]_vars

\* the built-in values as the module defines them
OriginalDict(name) == pdict_value(BuiltinHeap, BUILTIN_PRESETS[name])
OriginalConfig(name) ==
    config_value(load_builtin(BuiltinHeap, name).heap, load_builtin(BuiltinHeap, name).ref)

\* C30: after any mutations of a dictionary returned by get_builtin_preset
\* or of a PresetConfig returned by load, in-place changes of the padding
\* list and the animation parameters included, a later get_builtin_preset
\* or load returns the original built-in values.
C30_BuiltinsUnchanged ==
    (call.fn = "builtin" /\ Len(ret) = 1) =>
        /\ ret[1].last.op = "get" => ret[1].last.value = OriginalDict(ret[1].last.name)
        /\ ret[1].last.op = "load" => ret[1].last.value = OriginalConfig(ret[1].last.name)

\* what does hold: top-level items of the dictionary, fields of the
\* PresetConfig and its animation parameters are the client's own
C30_TopLevelUnchanged ==
    (call.fn = "builtin" /\ Len(ret) = 1) =>
        /\ ret[1].last.op = "get" =>
              ret[1].last.value.font_size = OriginalDict(ret[1].last.name).font_size
        /\ ret[1].last.op = "load" =>
              /\ ret[1].last.value.font_size = OriginalConfig(ret[1].last.name).font_size
              /\ (\A k \in 1..Len(ret[1].heap.pdicts) :
                     ret[1].heap.pdicts[k].animation # <<>> =>
                        ret[1].heap.dicts[ret[1].heap.pdicts[k].animation[1]]["in_ms"]
                            \in {"120", "140"})
                   => ret[1].last.value.animation = OriginalConfig(ret[1].last.name).animation
====
